---- MODULE Spec2Model ----
(***************************************************************************)
(* A model of koine/parser.py: grammar construction (subgrammar merging,   *)
(* normalization, linting, rendering to PEG source, compilation by the     *)
(* matcher) and parsing (matching, the AST builder, the cleanup pass).     *)
(*                                                                         *)
(* Python values are modelled as follows.  A dict is a TLA+ function whose *)
(* DOMAIN is the dict's key set, so `'k' in d` is `"k" \in DOMAIN d`.      *)
(* Values whose Python type varies at run time (what a visit returns, a    *)
(* node's `value`, an `ast.structure`) are tagged records [k |-> ...].     *)
(* Strings are TLA+ strings; Len, SubSeq, Head, Tail and \o act on them.   *)
(* A raised exception is a record [ok |-> FALSE, exc |-> ..., msg |-> ...].*)
(***************************************************************************)
EXTENDS Integers, Sequences, FiniteSets, TLC

VARIABLES
    scenario,       \* which of the Scenarios the caller runs (0: none yet)
    input_grammar,  \* the dictionary the caller passed to Parser(...), as the call left it
    parser_obj,     \* the Parser object: not built, built (its config), or the error raised
    last_call,      \* the arguments of the last parse call
    last_result,    \* what the last parse call returned, or the exception it raised
    last_visits,    \* every rule visit of the AST builder during the last parse call
    lexer,          \* a tokenize call in progress: its arguments and its locals
    transpiler,     \* the Transpiler object, and the argument and outcome of its last call
    finder,         \* the LineColumnFinder object, and the argument and result of its last find
    empty_check     \* an always-empty check in progress: its argument and its locals

vars == <<scenario, input_grammar, parser_obj, last_call, last_result, last_visits, lexer,
          transpiler, finder, empty_check>>

----------------------------------------------------------------------------
(* Python values *)

None == [k |-> "None"]
List(items) == [k |-> "list", items |-> items]
Dict(d) == [k |-> "dict", d |-> d]
PyInt(n) == [k |-> "int", v |-> n]
PyFloat(negative, ip, fp) == [k |-> "float", negative |-> negative, ip |-> ip, fp |-> fp]
PyBool(b) == [k |-> "bool", v |-> b]
PyStr(s) == [k |-> "str", v |-> s]

EmptyDict == [x \in {} |-> x]

get(d, key, default) == IF key \in DOMAIN d THEN d[key] ELSE default

Ok(s) == [ok |-> TRUE, s |-> s]
Raise(exc, msg) == [ok |-> FALSE, exc |-> exc, msg |-> msg]
ValueError(msg) == Raise("ValueError", msg)

\* body(value), with the value computed once
bind(value, body(_)) == body(value)

\* body(result), unless the result is a raised exception, which propagates
unless_raised(result, body(_)) == IF result.ok THEN body(result) ELSE result

\* old.join(parts)
RECURSIVE join(_, _)
join(joiner, parts) ==
    IF Len(parts) = 0 THEN ""
    ELSE IF Len(parts) = 1 THEN parts[1]
    ELSE parts[1] \o joiner \o join(joiner, Tail(parts))

\* s.replace(old, new) for a one-character old
RECURSIVE replace(_, _, _)
replace(s, old, new) ==
    IF Len(s) = 0 THEN ""
    ELSE (IF Head(s) = old THEN new ELSE Head(s)) \o replace(Tail(s), old, new)

\* sub in s
contains(s, sub) ==
    \E i \in 1..(Len(s) - Len(sub) + 1) : SubSeq(s, i, i + Len(sub) - 1) = sub

\* s.startswith(prefix, pos), pos 0-based
startswith(s, prefix, pos) ==
    /\ pos + Len(prefix) <= Len(s)
    /\ SubSeq(s, pos + 1, pos + Len(prefix)) = prefix

SEP == "__"

----------------------------------------------------------------------------
(* 1. Grammar-to-string transpiler *)

rule_keys ==
    {"literal", "regex", "rule", "choice", "sequence", "zero_or_more",
     "one_or_more", "optional", "token", "positive_lookahead",
     "negative_lookahead"}

NOOP == "(\"\")?"

RECURSIVE transpile_rule(_, _)

\* [transpile_rule(part, ...) for part in value]: the first error ends it
RECURSIVE transpile_parts(_, _)
transpile_parts(value, is_token_grammar) ==
    IF Len(value) = 0 THEN [ok |-> TRUE, parts |-> <<>>]
    ELSE unless_raised(transpile_rule(Head(value), is_token_grammar), LAMBDA h :
         unless_raised(transpile_parts(Tail(value), is_token_grammar), LAMBDA t :
         [ok |-> TRUE, parts |-> <<h.s>> \o t.parts]))

transpile_rule_ref(rule_definition, value) ==
    LET ast_config == get(rule_definition, "ast", EmptyDict)
        ast_keys == DOMAIN ast_config
        is_just_a_name == Cardinality(ast_keys) = 1 /\ "name" \in ast_keys
    IN  IF "ast" \in DOMAIN rule_definition /\ ~is_just_a_name
        THEN Ok("(" \o value \o " " \o NOOP \o ")")
        ELSE Ok(value)

\* a list rendered between parentheses, whatever its length
transpile_rule_list_bare(rule_type, value, is_token_grammar) ==
    unless_raised(transpile_parts(value, is_token_grammar), LAMBDA ps :
    Ok("(" \o join(IF rule_type = "choice" THEN " / " ELSE " ", ps.parts) \o ")"))

\* lines 158-169: a sequence or a choice
transpile_rule_list(rule_type, value, is_token_grammar) ==
    IF Len(value) = 0
    THEN IF rule_type = "sequence" THEN Ok(NOOP)
         ELSE ValueError("Choice cannot be empty")
    ELSE unless_raised(transpile_parts(value, is_token_grammar), LAMBDA ps :
         LET joiner == IF rule_type = "choice" THEN " / " ELSE " "
             joined_parts == join(joiner, ps.parts)
         IN  IF rule_type = "sequence" /\ Len(ps.parts) = 1
             THEN Ok("(" \o joined_parts \o " " \o NOOP \o ")")
             ELSE Ok("(" \o joined_parts \o ")"))

transpile_rule(rule_definition, is_token_grammar) ==
    IF "subgrammar" \in DOMAIN rule_definition THEN Ok(NOOP)
    ELSE
    LET found_keys == DOMAIN rule_definition \cap rule_keys IN
    IF Cardinality(found_keys) # 1
    THEN ValueError("Rule must have exactly one key")
    ELSE
    bind(CHOOSE key \in found_keys : TRUE, LAMBDA rule_type :
    LET value == rule_definition[rule_type] IN
    IF rule_type = "token" THEN Ok(value)
    ELSE IF rule_type \in {"literal", "regex"} /\ is_token_grammar
    THEN ValueError("not supported when a lexer is defined")
    ELSE IF rule_type = "literal"
    THEN Ok("\"" \o replace(value, "\"", "\\\"") \o "\"")
    ELSE IF rule_type = "regex"
    THEN Ok("~r\"" \o replace(value, "\"", "\\\"") \o "\"")
    ELSE IF rule_type = "rule"
    THEN transpile_rule_ref(rule_definition, value)
    ELSE IF rule_type \in {"choice", "sequence"}
    THEN transpile_rule_list(rule_type, value, is_token_grammar)
    ELSE
    unless_raised(transpile_rule(value, is_token_grammar), LAMBDA inner :
    IF rule_type = "zero_or_more" THEN Ok("(" \o inner.s \o ")*")
    ELSE IF rule_type = "one_or_more" THEN Ok("(" \o inner.s \o ")+")
    ELSE IF rule_type = "optional" THEN Ok("(" \o inner.s \o ")?")
    ELSE IF rule_type = "positive_lookahead" THEN Ok("&(" \o inner.s \o ")")
    ELSE Ok("!(" \o inner.s \o ")")))


\* The rules of a grammar dict keep their insertion order in `order`.
token_types(grammar_dict) ==
    LET tokens == grammar_dict.lexer.tokens
        declared == SelectSeq(tokens, LAMBDA spec : "token" \in DOMAIN spec)
    IN  [i \in 1..Len(declared) |-> declared[i].token] \o <<"INDENT", "DEDENT">>

RECURSIVE rule_lines(_, _, _)
rule_lines(names, rules, is_token_grammar) ==
    IF Len(names) = 0 THEN [ok |-> TRUE, parts |-> <<>>]
    ELSE unless_raised(transpile_rule(rules[Head(names)], is_token_grammar), LAMBDA h :
         unless_raised(rule_lines(Tail(names), rules, is_token_grammar), LAMBDA t :
         [ok |-> TRUE, parts |-> <<Head(names) \o " = " \o h.s>> \o t.parts]))

transpile_grammar(grammar_dict) ==
    IF "rules" \notin DOMAIN grammar_dict
    THEN ValueError("Grammar definition must have a 'rules' key.")
    ELSE
    LET is_token_grammar == "lexer" \in DOMAIN grammar_dict IN
    unless_raised(rule_lines(grammar_dict.order, grammar_dict.rules, is_token_grammar),
                  LAMBDA grammar_lines :
    bind(IF is_token_grammar THEN token_types(grammar_dict) ELSE <<>>, LAMBDA tts :
    LET token_lines == [i \in 1..Len(tts) |-> tts[i] \o " = ~r\"" \o tts[i] \o "\\s*\""]
    IN  Ok(join("\n", grammar_lines.parts \o token_lines))))

----------------------------------------------------------------------------
(* The matcher's grammar compiler, Grammar(grammar_string): it reads the   *)
(* PEG source that transpile_grammar renders.  A parenthesized expression  *)
(* is the expression inside it, so `(a)` is `a`; a rule whose body is a    *)
(* bare reference is an alias of the rule it names.                        *)

Chars(str) == {SubSeq(str, i, i) : i \in 1..Len(str)}
LabelChars == Chars("abcdefghijklmnopqrstuvwxyzABCDEFGHIJKLMNOPQRSTUVWXYZ0123456789_")

Ch(s, p) == IF p >= 1 /\ p <= Len(s) THEN SubSeq(s, p, p) ELSE ""

Literal(v) == [kind |-> "Literal", name |-> "", literal |-> v]
Regex(v) == [kind |-> "Regex", name |-> "", re |-> v]
LazyReference(to) == [kind |-> "Ref", to |-> to]
Sequence(members) == [kind |-> "Sequence", name |-> "", members |-> members]
OneOf(members) == [kind |-> "OneOf", name |-> "", members |-> members]
ZeroOrMore(member) == [kind |-> "Quantifier", name |-> "", members |-> <<member>>, min |-> 0]
OneOrMore(member) == [kind |-> "Quantifier", name |-> "", members |-> <<member>>, min |-> 1]
Optional(member) == [kind |-> "Quantifier", name |-> "", members |-> <<member>>, min |-> 0, max |-> 1]
Lookahead(member, negativity) ==
    [kind |-> "Lookahead", name |-> "", members |-> <<member>>, negativity |-> negativity]

PegOk(e, p) == [ok |-> TRUE, e |-> e, p |-> p]
BadGrammar == [ok |-> FALSE, exc |-> "ParseError", msg |-> "the matcher cannot read the grammar source"]

\* the position after the whitespace at p
RECURSIVE skip_ws(_, _)
skip_ws(s, p) == IF Ch(s, p) = " " THEN skip_ws(s, p + 1) ELSE p

\* the position of the quote closing a quoted literal whose text starts at p (0: none)
RECURSIVE closing_quote(_, _)
closing_quote(s, p) ==
    IF p > Len(s) THEN 0
    ELSE IF Ch(s, p) = "\\" THEN closing_quote(s, p + 2)
    ELSE IF Ch(s, p) = "\"" THEN p
    ELSE closing_quote(s, p + 1)

\* the value of a quoted literal's text: \" is a quote
RECURSIVE unescape(_)
unescape(s) ==
    IF Len(s) = 0 THEN ""
    ELSE IF Head(s) = "\\" /\ Len(s) >= 2 /\ Ch(s, 2) = "\""
    THEN "\"" \o unescape(SubSeq(s, 3, Len(s)))
    ELSE Head(s) \o unescape(Tail(s))

RECURSIVE label_end(_, _)
label_end(s, p) == IF Ch(s, p) \in LabelChars THEN label_end(s, p + 1) ELSE p

RECURSIVE peg_expression(_, _)
RECURSIVE peg_atom(_, _)
RECURSIVE peg_term(_, _)
RECURSIVE peg_terms(_, _, _, _)

peg_atom(s, p) ==
    LET c == Ch(s, p) IN
    IF c = "\""
    THEN bind(closing_quote(s, p + 1), LAMBDA q :
         IF q = 0 THEN BadGrammar
         ELSE PegOk(Literal(unescape(SubSeq(s, p + 1, q - 1))), skip_ws(s, q + 1)))
    ELSE IF c = "~"
    THEN IF SubSeq(s, p + 1, p + 2) # "r\"" THEN BadGrammar
         ELSE bind(closing_quote(s, p + 3), LAMBDA q :
              IF q = 0 THEN BadGrammar
              ELSE PegOk(Regex(SubSeq(s, p + 3, q - 1)), skip_ws(s, q + 1)))
    ELSE IF c = "("
    THEN unless_raised(peg_expression(s, skip_ws(s, p + 1)), LAMBDA inner :
         IF Ch(s, inner.p) # ")" THEN BadGrammar
         ELSE PegOk(inner.e, skip_ws(s, inner.p + 1)))
    ELSE IF c \in LabelChars
    THEN bind(label_end(s, p), LAMBDA q :
         PegOk(LazyReference(SubSeq(s, p, q - 1)), skip_ws(s, q)))
    ELSE BadGrammar

peg_term(s, p) ==
    LET c == Ch(s, p) IN
    IF c \in {"!", "&"}
    THEN unless_raised(peg_term(s, p + 1), LAMBDA t :
         PegOk(Lookahead(t.e, c = "!"), t.p))
    ELSE unless_raised(peg_atom(s, p), LAMBDA a :
         bind(Ch(s, a.p), LAMBDA q :
         IF q = "*" THEN PegOk(ZeroOrMore(a.e), skip_ws(s, a.p + 1))
         ELSE IF q = "+" THEN PegOk(OneOrMore(a.e), skip_ws(s, a.p + 1))
         ELSE IF q = "?" THEN PegOk(Optional(a.e), skip_ws(s, a.p + 1))
         ELSE a))

\* the terms that follow the first one: `/ term` repeated (ored), or `term` repeated
peg_terms(s, p, ored, acc) ==
    LET more == IF ored THEN Ch(s, p) = "/" ELSE Ch(s, p) \notin {"", ")", "/"} IN
    IF ~more THEN [ok |-> TRUE, es |-> acc, p |-> p]
    ELSE unless_raised(peg_term(s, IF ored THEN skip_ws(s, p + 1) ELSE p), LAMBDA t :
         peg_terms(s, t.p, ored, Append(acc, t.e)))

peg_expression(s, p) ==
    unless_raised(peg_term(s, p), LAMBDA first :
    LET ored == Ch(s, first.p) = "/" IN
    unless_raised(peg_terms(s, first.p, ored, <<first.e>>), LAMBDA rest :
    IF Len(rest.es) = 1 THEN first
    ELSE PegOk(IF ored THEN OneOf(rest.es) ELSE Sequence(rest.es), rest.p)))

\* s.split(sep) for a one-character sep
split(s, sep) ==
    LET at == {i \in 1..Len(s) : SubSeq(s, i, i) = sep}
        n == Cardinality(at)
        nth(k) == IF k = 0 THEN 0
                  ELSE IF k = n + 1 THEN Len(s) + 1
                  ELSE CHOOSE i \in at : Cardinality({j \in at : j < i}) = k - 1
    IN  [k \in 1..(n + 1) |-> SubSeq(s, nth(k - 1) + 1, nth(k) - 1)]

\* one line `label = expression`
peg_rule(line) ==
    bind(label_end(line, 1), LAMBDA q :
    IF q = 1 \/ SubSeq(line, q, q + 2) # " = " THEN BadGrammar
    ELSE unless_raised(peg_expression(line, q + 3), LAMBDA body :
         IF body.p # Len(line) + 1 THEN BadGrammar
         ELSE [ok |-> TRUE, label |-> SubSeq(line, 1, q - 1),
               e |-> IF body.e.kind = "Ref" THEN body.e
                     ELSE [body.e EXCEPT !.name = SubSeq(line, 1, q - 1)]]))

\* the rule a chain of aliases ends in ("" when the chain is a cycle, n when undefined)
RECURSIVE resolve_refs(_, _, _)
resolve_refs(rule_map, label, seen) ==
    IF label \in seen THEN ""
    ELSE IF label \notin DOMAIN rule_map THEN label
    ELSE IF rule_map[label].kind # "Ref" THEN label
    ELSE resolve_refs(rule_map, rule_map[label].to, seen \cup {label})

\* the labels an expression refers to
RECURSIVE references(_)
RECURSIVE references_of(_)
references_of(members) ==
    IF Len(members) = 0 THEN {}
    ELSE references(Head(members)) \cup references_of(Tail(members))
references(e) ==
    IF e.kind = "Ref" THEN {e.to}
    ELSE IF "members" \in DOMAIN e THEN references_of(e.members)
    ELSE {}

RECURSIVE peg_rules(_)
peg_rules(lines) ==
    IF Len(lines) = 0 THEN [ok |-> TRUE, rule_map |-> EmptyDict]
    ELSE unless_raised(peg_rule(Head(lines)), LAMBDA r :
         unless_raised(peg_rules(Tail(lines)), LAMBDA t :
         [ok |-> TRUE, rule_map |-> t.rule_map @@ (r.label :> r.e)]))

\* Grammar(grammar_string): label -> expression; a later rule of the same label wins
Grammar(grammar_string) ==
    unless_raised(IF grammar_string = "" THEN [ok |-> TRUE, rule_map |-> EmptyDict]
                  ELSE peg_rules(split(grammar_string, "\n")), LAMBDA parsed :
    LET rule_map == parsed.rule_map
        labels == DOMAIN rule_map
        used == UNION {references(rule_map[l]) : l \in labels}
        resolved == [l \in used \cup labels |-> resolve_refs(rule_map, l, {})]
    IN  bind(resolved, LAMBDA target :
        LET undefined == {target[l] : l \in DOMAIN target} \ (labels \cup {""})
            circular == \E l \in labels : target[l] = ""
        IN  IF undefined # {}
            THEN Raise("UndefinedLabel", CHOOSE l \in undefined : TRUE)
            ELSE IF circular
            THEN Raise("VisitationError", "Circular Reference")
            ELSE [ok |-> TRUE, exprs |-> [l \in labels |-> rule_map[target[l]]]]))

----------------------------------------------------------------------------
(* Regular expressions (re.compile(p).match(text, pos)) for the patterns   *)
(* the grammars here use: a concatenation of items, each a character, an   *)
(* escape (\s \d \n) or a class [...] with ranges, optionally followed by   *)
(* one of * + ?; quantifiers are greedy and backtrack.                     *)

CharOrder == "0123456789ABCDEFGHIJKLMNOPQRSTUVWXYZabcdefghijklmnopqrstuvwxyz"
index_of(s, c) == CHOOSE i \in 1..Len(s) : SubSeq(s, i, i) = c
char_range(a, b) ==
    {SubSeq(CharOrder, i, i) : i \in index_of(CharOrder, a)..index_of(CharOrder, b)}
escape_class(c) ==
    IF c = "s" THEN {" ", "\n", "\t"}
    ELSE IF c = "d" THEN char_range("0", "9")
    ELSE IF c = "n" THEN {"\n"}
    ELSE {c}

\* the characters of a class body, starting at p, up to the closing bracket
RECURSIVE class_chars(_, _)
class_chars(pattern, p) ==
    LET c == Ch(pattern, p) IN
    IF c \in {"]", ""} THEN [set |-> {}, p |-> p + 1]
    ELSE IF c = "\\"
    THEN bind(class_chars(pattern, p + 2), LAMBDA rest :
         [set |-> escape_class(Ch(pattern, p + 1)) \cup rest.set, p |-> rest.p])
    ELSE IF Ch(pattern, p + 1) = "-" /\ Ch(pattern, p + 2) \notin {"]", ""}
    THEN bind(class_chars(pattern, p + 3), LAMBDA rest :
         [set |-> char_range(c, Ch(pattern, p + 2)) \cup rest.set, p |-> rest.p])
    ELSE bind(class_chars(pattern, p + 1), LAMBDA rest :
         [set |-> {c} \cup rest.set, p |-> rest.p])

\* the items of a pattern from position p on: [set, min, greedy upper bound]
RECURSIVE re_compile(_, _)
re_compile(pattern, p) ==
    IF p > Len(pattern) THEN <<>>
    ELSE
    LET c == Ch(pattern, p) IN
    bind(IF c = "[" THEN class_chars(pattern, p + 1)
         ELSE IF c = "\\" THEN [set |-> escape_class(Ch(pattern, p + 1)), p |-> p + 2]
         ELSE [set |-> {c}, p |-> p + 1], LAMBDA atom :
    bind(Ch(pattern, atom.p), LAMBDA q :
    LET item == IF q = "*" THEN [set |-> atom.set, min |-> 0, many |-> TRUE]
                ELSE IF q = "+" THEN [set |-> atom.set, min |-> 1, many |-> TRUE]
                ELSE IF q = "?" THEN [set |-> atom.set, min |-> 0, many |-> FALSE]
                ELSE [set |-> atom.set, min |-> 1, many |-> FALSE]
    IN  <<item>> \o re_compile(pattern, IF q \in {"*", "+", "?"} THEN atom.p + 1 ELSE atom.p)))

\* how many characters of the set follow pos (0-based), at most limit
RECURSIVE run_length(_, _, _, _)
run_length(text, pos, set, limit) ==
    IF limit = 0 \/ pos >= Len(text) \/ Ch(text, pos + 1) \notin set THEN 0
    ELSE 1 + run_length(text, pos + 1, set, limit - 1)

\* the end of the match of items[i..] at pos, or -1
RECURSIVE re_match_items(_, _, _, _)
RECURSIVE re_try(_, _, _, _, _)
re_try(items, i, text, pos, n) ==
    IF n < items[i].min THEN -1
    ELSE bind(re_match_items(items, i + 1, text, pos + n), LAMBDA r :
         IF r >= 0 THEN r ELSE re_try(items, i, text, pos, n - 1))
re_match_items(items, i, text, pos) ==
    IF i > Len(items) THEN pos
    ELSE re_try(items, i, text, pos,
                run_length(text, pos, items[i].set,
                           IF items[i].many THEN Len(text) ELSE 1))

re_match(pattern, text, pos) == re_match_items(re_compile(pattern, 1), 1, text, pos)

----------------------------------------------------------------------------
(* The matcher: Expression.match_core and Expression.parse.  A parse-tree  *)
(* node keeps its expression (without the members), its span and children. *)

Node(e, start, end, children) ==
    [ok |-> TRUE, expr |-> [f \in DOMAIN e \ {"members"} |-> e[f]],
     start |-> start, end |-> end, children |-> children]
NoMatch == [ok |-> FALSE]

node_text(text, node) == SubSeq(text, node.start + 1, node.end)

RECURSIVE match_core(_, _, _, _)
RECURSIVE match_sequence(_, _, _, _, _, _)
RECURSIVE match_one_of(_, _, _, _, _)
RECURSIVE match_quantifier(_, _, _, _, _)

match_sequence(exprs, e, i, text, new_pos, children) ==
    IF i > Len(e.members) THEN children
    ELSE bind(match_core(exprs, e.members[i], text, new_pos), LAMBDA node :
         IF ~node.ok THEN <<NoMatch>>
         ELSE match_sequence(exprs, e, i + 1, text, new_pos + (node.end - node.start),
                             Append(children, node)))

match_one_of(exprs, e, i, text, pos) ==
    IF i > Len(e.members) THEN NoMatch
    ELSE bind(match_core(exprs, e.members[i], text, pos), LAMBDA node :
         IF node.ok THEN node ELSE match_one_of(exprs, e, i + 1, text, pos))

\* the loop of Quantifier._uncached_match; returns the children matched
match_quantifier(exprs, e, text, new_pos, children) ==
    IF ~(new_pos < Len(text) /\ ("max" \notin DOMAIN e \/ Len(children) < e.max))
    THEN children
    ELSE bind(match_core(exprs, e.members[1], text, new_pos), LAMBDA node :
         IF ~node.ok THEN children
         ELSE IF Len(children) + 1 >= e.min /\ node.end - node.start = 0
         THEN Append(children, node)
         ELSE match_quantifier(exprs, e, text, new_pos + (node.end - node.start),
                               Append(children, node)))

match_core(exprs, e, text, pos) ==
    IF e.kind = "Ref" THEN match_core(exprs, exprs[e.to], text, pos)
    ELSE IF e.kind = "Literal"
    THEN IF startswith(text, e.literal, pos)
         THEN Node(e, pos, pos + Len(e.literal), <<>>) ELSE NoMatch
    ELSE IF e.kind = "Regex"
    THEN bind(re_match(e.re, text, pos), LAMBDA end :
         IF end >= 0 THEN Node(e, pos, end, <<>>) ELSE NoMatch)
    ELSE IF e.kind = "Sequence"
    THEN bind(match_sequence(exprs, e, 1, text, pos, <<>>), LAMBDA children :
         IF Len(children) > 0 /\ ~children[Len(children)].ok THEN NoMatch
         ELSE Node(e, pos, IF Len(children) = 0 THEN pos ELSE children[Len(children)].end,
                   children))
    ELSE IF e.kind = "OneOf"
    THEN bind(match_one_of(exprs, e, 1, text, pos), LAMBDA node :
         IF node.ok THEN Node(e, pos, node.end, <<node>>) ELSE NoMatch)
    ELSE IF e.kind = "Quantifier"
    THEN bind(match_quantifier(exprs, e, text, pos, <<>>), LAMBDA children :
         IF Len(children) >= e.min
         THEN Node(e, pos, IF Len(children) = 0 THEN pos ELSE children[Len(children)].end,
                   children)
         ELSE NoMatch)
    ELSE \* Lookahead
         bind(match_core(exprs, e.members[1], text, pos), LAMBDA node :
         IF (~node.ok) = e.negativity THEN Node(e, pos, pos, <<>>) ELSE NoMatch)

\* Expression.parse(text): the tree, or ParseError / IncompleteParseError
expr_parse(exprs, e, text) ==
    bind(match_core(exprs, e, text, 0), LAMBDA node :
    IF ~node.ok THEN [ok |-> FALSE, exc |-> "ParseError", msg |-> "", pos |-> 0]
    ELSE IF node.end < Len(text)
    THEN [ok |-> FALSE, exc |-> "IncompleteParseError", msg |-> "", pos |-> node.end]
    ELSE node)

----------------------------------------------------------------------------
(* 2. Position finder *)

\* the places of the newlines themselves
line_starts_at_newlines(text) ==
    <<0>> \o SelectSeq([i \in 1..Len(text) |-> IF Ch(text, i) = "\n" THEN i - 1 ELSE -1],
                       LAMBDA x : x >= 0)

\* lines 203-208
line_starts(text) ==
    <<0>> \o SelectSeq([i \in 1..Len(text) |-> IF Ch(text, i) = "\n" THEN i ELSE -1],
                       LAMBDA x : x >= 0)

\* bisect_right(a, x) for an ascending a: the number of elements <= x
bisect_right(a, x) == Cardinality({i \in 1..Len(a) : a[i] <= x})

find(text, offset) ==
    LET clamped == IF offset < 0 THEN 0
                   ELSE IF offset > Len(text) THEN Len(text) ELSE offset
    IN  bind(line_starts(text), LAMBDA starts :
        bind(bisect_right(starts, clamped), LAMBDA line_num :
        [line |-> line_num, col |-> clamped - starts[line_num] + 1]))

----------------------------------------------------------------------------
(* float(text), for texts of blanks, a sign, digits and at most one point  *)
(* (no exponent, inf, nan or underscores), short enough that rounding to a *)
(* double makes no fraction integral; int(val) if val.is_integer().        *)

Digits == "0123456789"
WhiteSpace == {" ", "\n", "\t"}

RECURSIVE strip(_)
strip(s) ==
    IF Len(s) = 0 THEN s
    ELSE IF Head(s) \in WhiteSpace THEN strip(Tail(s))
    ELSE IF Ch(s, Len(s)) \in WhiteSpace THEN strip(SubSeq(s, 1, Len(s) - 1))
    ELSE s

RECURSIVE lower(_)
lower(s) ==
    IF Len(s) = 0 THEN ""
    ELSE LET c == Head(s)
             i == IF c \in Chars("ABCDEFGHIJKLMNOPQRSTUVWXYZ")
                  THEN index_of("ABCDEFGHIJKLMNOPQRSTUVWXYZ", c) ELSE 0
         IN  (IF i > 0 THEN SubSeq("abcdefghijklmnopqrstuvwxyz", i, i) ELSE c) \o lower(Tail(s))

RECURSIVE to_int(_)
to_int(digits) ==
    IF Len(digits) = 0 THEN 0
    ELSE 10 * to_int(SubSeq(digits, 1, Len(digits) - 1))
         + (index_of(Digits, Ch(digits, Len(digits))) - 1)

RECURSIVE rstrip_zeros(_)
rstrip_zeros(s) ==
    IF Len(s) > 0 /\ Ch(s, Len(s)) = "0" THEN rstrip_zeros(SubSeq(s, 1, Len(s) - 1)) ELSE s

\* the value `int(val) if val.is_integer() else val` of val = float(text), or ValueError
number_value(text) ==
    bind(strip(text), LAMBDA t :
    LET signed == Len(t) > 0 /\ Head(t) \in {"+", "-"}
        negative == signed /\ Head(t) = "-"
    IN
    bind(IF signed THEN Tail(t) ELSE t, LAMBDA body :
    bind({i \in 1..Len(body) : Ch(body, i) = "."}, LAMBDA points :
    bind(IF points = {} THEN Len(body) + 1 ELSE CHOOSE i \in points : TRUE, LAMBDA point :
    LET ip == SubSeq(body, 1, point - 1)
        fp == SubSeq(body, point + 1, Len(body))
        well_formed == /\ Cardinality(points) <= 1
                       /\ Len(ip) + Len(fp) > 0
                       /\ \A i \in 1..Len(ip) : Ch(ip, i) \in Chars(Digits)
                       /\ \A i \in 1..Len(fp) : Ch(fp, i) \in Chars(Digits)
    IN  IF ~well_formed THEN [k |-> "raise", exc |-> "ValueError"]
        ELSE bind(to_int(ip), LAMBDA whole :
             bind(rstrip_zeros(fp), LAMBDA fraction :
             IF fraction = "" THEN PyInt(IF negative THEN 0 - whole ELSE whole)
             ELSE PyFloat(negative, whole, fraction)))))))

----------------------------------------------------------------------------
(* 3. Parse-tree-to-AST visitor *)

Raised(exc) == [k |-> "raise", exc |-> exc]
is_none(v) == v.k = "None"
is_list(v) == v.k = "list"
is_dict(v) == v.k = "dict"
\* c in (None, [])
is_placeholder(c) == is_none(c) \/ (is_list(c) /\ Len(c.items) = 0)
not_none(items) == SelectSeq(items, LAMBDA c : ~is_none(c))

is_wrapped_leaf(rule_def) ==
    /\ "sequence" \in DOMAIN rule_def
    /\ Len(rule_def.sequence) = 1
    /\ LET child == rule_def.sequence[1] IN
       /\ "literal" \in DOMAIN child \/ "regex" \in DOMAIN child
       /\ "ast" \notin DOMAIN child

\* self.tokens is a non-empty list
has_tokens(ctx) == is_list(ctx.tokens) /\ Len(ctx.tokens.items) > 0

\* the first child that is a dict with a 'line'
RECURSIVE first_positioned(_)
first_positioned(children) ==
    IF Len(children) = 0 THEN [line |-> 1, col |-> 1]
    ELSE IF is_dict(Head(children)) /\ "line" \in DOMAIN Head(children).d
    THEN [line |-> Head(children).d.line, col |-> Head(children).d.col]
    ELSE first_positioned(Tail(children))

get_pos(ctx, node, children) ==
    IF has_tokens(ctx) THEN first_positioned(children)
    ELSE find(ctx.text, node.start)

\* the deep flattening of a list of children: nested lists opened, None dropped
RECURSIVE flatten(_)
flatten(items) ==
    IF Len(items) = 0 THEN <<>>
    ELSE LET item == Head(items) IN
         (IF is_list(item) THEN flatten(item.items)
          ELSE IF is_none(item) THEN <<>> ELSE <<item>>) \o flatten(Tail(items))

\* the `value` a `type` directive gives a text (no entry when the type is another)
typed_value(type, text) ==
    IF type = "number" THEN number_value(text)
    ELSE IF type = "bool" THEN PyBool(lower(text) = "true")
    ELSE None

\* a node whose `value` is its text, whatever the type
with_text_value(base_node, type, text) == Dict(base_node @@ [value |-> PyStr(text)])

\* lines 316-322, 280-289: the node, with the `value` its type gives it
with_value(base_node, type, text) ==
    IF type \notin {"number", "bool", "null"} THEN Dict(base_node)
    ELSE bind(typed_value(type, text), LAMBDA v :
         IF v.k = "raise" THEN v ELSE Dict(base_node @@ [value |-> v]))

\* lines 263-293: a token-named rule takes the next token
visit_token(ctx, token_idx) ==
    IF token_idx < Len(ctx.tokens.items)
    THEN LET token == ctx.tokens.items[token_idx + 1]
             specs == ctx.grammar_dict.lexer.tokens
             found == {i \in 1..Len(specs) :
                          "token" \in DOMAIN specs[i] /\ specs[i].token = token.type}
             spec_ast == IF found = {} THEN EmptyDict
                         ELSE get(specs[CHOOSE i \in found : \A j \in found : i <= j],
                                  "ast", EmptyDict)
             base_node == [tag |-> token.type, text |-> token.value,
                           line |-> token.line, col |-> token.col]
             spec_type == get(spec_ast, "type", "")
         IN  IF get(spec_ast, "discard", FALSE) THEN None
             ELSE IF spec_type \in {"number", "bool", "null"}
             THEN with_value(base_node, spec_type, token.value)
             ELSE Dict(base_node @@ [value |-> PyStr(token.value)])
    ELSE None

\* lines 295-302: a node of no grammar rule
visit_anonymous(ctx, node, visited_children) ==
    LET text == node_text(ctx.parsed, node) IN
    IF node.expr.kind = "Lookahead" \/ (Len(text) = 0 /\ Len(visited_children) = 0)
    THEN None
    ELSE IF node.expr.kind = "Quantifier" /\ "max" \in DOMAIN node.expr /\ node.expr.max = 1
    THEN visited_children[1]
    ELSE IF node.expr.kind \in {"Literal", "Regex"} /\ ~has_tokens(ctx)
    THEN IF Len(text) = 0 THEN None
         ELSE bind(find(ctx.text, node.start), LAMBDA pos :
              Dict([tag |-> IF node.expr.kind = "Literal" THEN "literal" ELSE "regex",
                    text |-> text, line |-> pos.line, col |-> pos.col]))
    ELSE List(not_none(visited_children))

\* lines 314-322
visit_leaf(ctx, node, rule_name, ast_config, children) ==
    bind(get_pos(ctx, node, children), LAMBDA pos :
    bind(node_text(ctx.parsed, node), LAMBDA text :
    LET base_node == [tag |-> get(ast_config, "tag", rule_name), text |-> text,
                      line |-> pos.line, col |-> pos.col]
    IN  with_value(base_node, get(ast_config, "type", ""), text)))

is_literal_node(c) == is_dict(c) /\ get(c.d, "tag", "") = "literal"

\* lines 366-388: the parent's directives applied to a promoted dict
promote_dict(ast_config, promoted) ==
    LET tagged == IF "tag" \in DOMAIN ast_config
                  THEN [promoted EXCEPT !.tag = ast_config.tag] ELSE promoted
    IN  bind(IF get(ast_config, "leaf", FALSE) /\ "children" \in DOMAIN tagged
             THEN [f \in DOMAIN tagged \ {"children"} |-> tagged[f]] ELSE tagged,
             LAMBDA pruned :
        IF "type" \notin DOMAIN ast_config THEN Dict(pruned)
        ELSE IF "text" \notin DOMAIN pruned THEN Raised("KeyError")
        ELSE IF ast_config.type \in {"number", "bool", "null"}
        THEN bind(typed_value(ast_config.type, pruned.text), LAMBDA v :
             Dict([f \in DOMAIN pruned \cup {"value"} |->
                     IF f = "value"
                     THEN (IF v.k = "raise" THEN PyStr(pruned.text) ELSE v)
                     ELSE pruned[f]]))
        ELSE Dict(pruned))

\* lines 324-403
visit_promote(ctx, node, rule_def, ast_config, children0) ==
    bind(flatten(children0), LAMBDA children :
    LET parenthesized == /\ Len(children) = 3
                         /\ is_literal_node(children[1])
                         /\ is_literal_node(children[3])
        is_sequence == "sequence" \in DOMAIN rule_def
        is_quantifier == DOMAIN rule_def \cap {"one_or_more", "zero_or_more", "optional"} # {}
    IN  bind(IF parenthesized THEN children[2]
             ELSE IF is_sequence \/ is_quantifier THEN List(children)
             ELSE IF Len(children) = 0 THEN None
             ELSE IF Len(children) = 1 THEN children[1]
             ELSE List(children), LAMBDA promoted_node :
        IF is_none(promoted_node) THEN None
        ELSE IF is_dict(promoted_node) THEN promote_dict(ast_config, promoted_node.d)
        ELSE IF "tag" \in DOMAIN ast_config
        THEN bind(get_pos(ctx, node, children), LAMBDA pos :
             Dict([tag |-> ast_config.tag, text |-> node_text(ctx.parsed, node),
                   line |-> pos.line, col |-> pos.col, children |-> promoted_node]))
        ELSE promoted_node))

\* a binary_op node with its operands exchanged
binary_op_swapped(op, left, right) ==
    Dict([tag |-> "binary_op", op |-> op, left |-> right, right |-> left,
          line |-> op.d.line, col |-> op.d.col])

\* line 415: new_node
binary_op(op, left, right) ==
    Dict([tag |-> "binary_op", op |-> op, left |-> left, right |-> right,
          line |-> op.d.line, col |-> op.d.col])

\* lines 411-417: the loop over the groups, from group i on
RECURSIVE fold_groups(_, _, _)
fold_groups(groups, i, left) ==
    IF i > Len(groups) THEN left
    ELSE LET group == groups[i] IN
         IF ~is_list(group) THEN Raised("TypeError")
         ELSE LET clean_group == not_none(group.items) IN
              IF Len(clean_group) = 0 THEN fold_groups(groups, i + 1, left)
              ELSE IF Len(clean_group) < 2 THEN Raised("IndexError")
              ELSE IF ~is_dict(clean_group[1]) THEN Raised("TypeError")
              ELSE fold_groups(groups, i + 1,
                               binary_op(clean_group[1], left, clean_group[2]))

\* lines 407-417
visit_left_associative_op(children) ==
    IF Len(children) = 0 THEN Raised("IndexError")
    ELSE IF Len(children) < 2 THEN children[1]
    ELSE IF ~is_list(children[2]) THEN Raised("TypeError")
    ELSE fold_groups(children[2].items, 1, children[1])

\* lines 418-425
visit_right_associative_op(children) ==
    IF Len(children) = 0 THEN Raised("IndexError")
    ELSE IF Len(children) < 2 \/ (is_list(children[2]) /\ Len(children[2].items) = 0)
    THEN children[1]
    ELSE IF ~is_list(children[2]) THEN Raised("TypeError")
    ELSE LET op_and_right_list == not_none(children[2].items) IN
         IF Len(op_and_right_list) = 0 THEN children[1]
         ELSE IF Len(op_and_right_list) < 2 THEN Raised("IndexError")
         ELSE IF ~is_dict(op_and_right_list[1]) THEN Raised("TypeError")
         ELSE binary_op(op_and_right_list[1], children[1], op_and_right_list[2])

\* the node at index scan_idx, whatever it is (None when there is none)
no_fall_forward(child_nodes, scan_idx) ==
    IF scan_idx < Len(child_nodes) THEN child_nodes[scan_idx + 1] ELSE None

\* lines 450-457: the first real node at index scan_idx or after (None when there is none)
RECURSIVE fall_forward(_, _)
fall_forward(child_nodes, scan_idx) ==
    IF ~(scan_idx < Len(child_nodes)) THEN None
    ELSE IF ~is_placeholder(child_nodes[scan_idx + 1]) THEN child_nodes[scan_idx + 1]
    ELSE fall_forward(child_nodes, scan_idx + 1)

\* lines 426-461
visit_map_children(ctx, node, rule_name, structure_config, children, visited_children) ==
    LET map_children_config == get(structure_config, "map_children", EmptyDict)
        child_nodes == IF Len(visited_children) = 1 /\ is_list(visited_children[1])
                       THEN visited_children[1].items ELSE visited_children
    IN  bind(get_pos(ctx, node, children), LAMBDA pos :
        bind([name \in DOMAIN map_children_config |->
                 fall_forward(child_nodes, map_children_config[name].from_child)],
             LAMBDA selected :
        LET kept == {name \in DOMAIN selected : ~is_placeholder(selected[name])} IN
        Dict([tag |-> get(structure_config, "tag", rule_name),
              text |-> node_text(ctx.parsed, node), line |-> pos.line, col |-> pos.col,
              children |-> Dict([name \in kept |-> selected[name]])])))

is_discarded_part(grammar_rules, part) ==
    IF "ast" \in DOMAIN part /\ get(part.ast, "discard", FALSE) THEN TRUE
    ELSE IF "rule" \in DOMAIN part
    THEN get(get(get(grammar_rules, part.rule, EmptyDict), "ast", EmptyDict), "discard", FALSE)
    ELSE FALSE

\* every part of the sequence, the lookaheads and the discarded ones too
every_part(grammar_rules, sequence_def) == sequence_def

\* lines 470-486
child_producing_parts(grammar_rules, sequence_def) ==
    SelectSeq(sequence_def,
              LAMBDA part :
                  /\ "positive_lookahead" \notin DOMAIN part
                  /\ "negative_lookahead" \notin DOMAIN part
                  /\ ~is_discarded_part(grammar_rules, part))

\* lines 463-520
visit_default(ctx, node, rule_name, rule_def, ast_config, children) ==
    bind(get_pos(ctx, node, children), LAMBDA pos :
    bind(child_producing_parts(ctx.grammar_dict.rules, get(rule_def, "sequence", <<>>)),
         LAMBDA parts :
    bind({i \in 1..Len(parts) : "ast" \in DOMAIN parts[i] /\ "name" \in DOMAIN parts[i].ast},
         LAMBDA named :
    LET base_node == [tag |-> get(ast_config, "tag", rule_name),
                      text |-> node_text(ctx.parsed, node),
                      line |-> pos.line, col |-> pos.col]
        names == {parts[i].ast.name : i \in named}
        \* a later part of the same name overwrites an earlier one
        last == [name \in names |->
                    CHOOSE i \in named :
                        /\ parts[i].ast.name = name
                        /\ \A j \in named : parts[j].ast.name = name => j <= i]
        named_children == [name \in names |->
                              bind(last[name], LAMBDA i :
                                   IF i <= Len(children) THEN children[i] ELSE List(<<>>))]
        unwrapped_children == IF Len(children) = 1 /\ is_list(children[1])
                              THEN children[1].items ELSE children
    IN  IF names # {}
        THEN Dict(base_node @@ [children |-> Dict(named_children)])
        ELSE Dict(base_node @@ [children |-> List(flatten(unwrapped_children))]))))

\* no rule is discarded
never_discarded(ast_config) == FALSE

\* line 306: ast_config.get('discard')
is_discarded(ast_config) == get(ast_config, "discard", FALSE)

\* lines 304-520: the visit of a node of a grammar rule
visit_rule(ctx, node, rule_name, visited_children) ==
    bind(ctx.grammar_dict.rules[rule_name], LAMBDA rule_def :
    bind(get(rule_def, "ast", EmptyDict), LAMBDA ast_config :
    bind(not_none(visited_children), LAMBDA children :
    LET is_leaf_rule == \/ get(ast_config, "leaf", FALSE)
                        \/ (~has_tokens(ctx) /\ ("literal" \in DOMAIN rule_def
                                                 \/ "regex" \in DOMAIN rule_def))
                        \/ is_wrapped_leaf(rule_def)
        structure_config == get(ast_config, "structure", EmptyDict)
    IN  IF is_discarded(ast_config) THEN None
        ELSE IF is_leaf_rule THEN visit_leaf(ctx, node, rule_name, ast_config, children)
        ELSE IF get(ast_config, "promote", FALSE)
        THEN visit_promote(ctx, node, rule_def, ast_config, children)
        ELSE IF "str" \in DOMAIN structure_config /\ structure_config.str = "left_associative_op"
        THEN visit_left_associative_op(children)
        ELSE IF "str" \in DOMAIN structure_config /\ structure_config.str = "right_associative_op"
        THEN visit_right_associative_op(children)
        ELSE IF "dict" \in DOMAIN structure_config
        THEN visit_map_children(ctx, node, rule_name, structure_config.dict, children,
                                visited_children)
        ELSE visit_default(ctx, node, rule_name, rule_def, ast_config, children))))

\* generic_visit: the value returned (or the exception), and the token index after it
generic_visit(ctx, node, visited_children, token_idx) ==
    LET rule_name == node.expr.name IN
    IF has_tokens(ctx) /\ rule_name \in ctx.token_rule_names
    THEN [v |-> visit_token(ctx, token_idx),
          token_idx |-> IF token_idx < Len(ctx.tokens.items) THEN token_idx + 1 ELSE token_idx]
    ELSE IF rule_name \notin DOMAIN ctx.grammar_dict.rules
    THEN [v |-> visit_anonymous(ctx, node, visited_children), token_idx |-> token_idx]
    ELSE [v |-> visit_rule(ctx, node, rule_name, visited_children), token_idx |-> token_idx]

\* NodeVisitor.visit: the children first, in order, then the node; an exception ends
\* the walk.  `visits` records each visit of a named node.
RECURSIVE visit(_, _, _)
RECURSIVE visit_all(_, _, _, _)
visit_all(ctx, nodes, st, acc) ==
    IF Len(nodes) = 0 THEN [v |-> List(acc), st |-> st]
    ELSE bind(visit(ctx, Head(nodes), st), LAMBDA r :
         IF r.v.k = "raise" THEN r
         ELSE visit_all(ctx, Tail(nodes), r.st, Append(acc, r.v)))

visit(ctx, node, st) ==
    bind(visit_all(ctx, node.children, st, <<>>), LAMBDA kids :
    IF kids.v.k = "raise" THEN kids
    ELSE bind(generic_visit(ctx, node, kids.v.items, kids.st.token_idx), LAMBDA r :
         LET entry == [rule_name |-> node.expr.name, start |-> node.start,
                       end |-> node.end, visited_children |-> kids.v.items, ret |-> r.v]
         IN  [v |-> r.v,
              st |-> [token_idx |-> r.token_idx,
                      visits |-> IF node.expr.name = "" THEN kids.st.visits
                                 ELSE Append(kids.st.visits, entry)]]))

----------------------------------------------------------------------------
(* 0. Lexer *)

Token(type, value, line, col) == [type |-> type, value |-> value, line |-> line, col |-> col]

\* text.expandtabs(tab_width)
RECURSIVE expandtabs(_, _, _)
expandtabs(text, tab_width, column) ==
    IF Len(text) = 0 THEN ""
    ELSE LET c == Head(text) IN
         IF c = "\t"
         THEN IF tab_width > 0
              THEN LET pad == tab_width - (column % tab_width) IN
                   join("", [i \in 1..pad |-> " "])
                       \o expandtabs(Tail(text), tab_width, column + pad)
              ELSE expandtabs(Tail(text), tab_width, column)
         ELSE c \o expandtabs(Tail(text), tab_width, IF c \in {"\n", "\r"} THEN 0 ELSE column + 1)

count_char(value, c) == Cardinality({i \in 1..Len(value) : Ch(value, i) = c})
\* value.rfind(c), 0-based (-1 when absent)
rfind(value, c) ==
    LET at == {i \in 1..Len(value) : Ch(value, i) = c} IN
    IF at = {} THEN -1 ELSE (CHOOSE i \in at : \A j \in at : j <= i) - 1

\* the first spec that matches at pos, whatever the length of its match (0: none)
first_matching_spec(token_specs, text, pos) ==
    bind([i \in 1..Len(token_specs) |-> re_match(token_specs[i].regex, text, pos)],
         LAMBDA ends :
    bind({i \in 1..Len(token_specs) : ends[i] >= 0}, LAMBDA matching :
    IF matching = {} THEN [spec |-> 0, end |-> -1]
    ELSE bind(CHOOSE i \in matching : \A j \in matching : i <= j,
              LAMBDA first : [spec |-> first, end |-> ends[first]])))

\* lines 55-59: the spec whose match at pos is longest, the earliest among equals (0: none)
best_spec(token_specs, text, pos) ==
    bind([i \in 1..Len(token_specs) |-> re_match(token_specs[i].regex, text, pos)],
         LAMBDA ends :
    bind({i \in 1..Len(token_specs) : ends[i] >= 0}, LAMBDA matching :
    IF matching = {} THEN [spec |-> 0, end |-> -1]
    ELSE bind(CHOOSE i \in matching :
                  \A j \in matching : ends[j] < ends[i] \/ (ends[j] = ends[i] /\ i <= j),
              LAMBDA best : [spec |-> best, end |-> ends[best]])))

\* lines 76-78: pop while indent_level < top, one DEDENT each
\* one level popped at most
dedent_one_level(indent_stack, tokens, indent_level, line) ==
    IF Len(indent_stack) > 0 /\ indent_level < indent_stack[Len(indent_stack)]
    THEN [stack |-> SubSeq(indent_stack, 1, Len(indent_stack) - 1),
          tokens |-> Append(tokens, Token("DEDENT", "", line, 1))]
    ELSE [stack |-> indent_stack, tokens |-> tokens]

RECURSIVE dedent_to(_, _, _, _)
dedent_to(indent_stack, tokens, indent_level, line) ==
    IF Len(indent_stack) = 0 THEN [stack |-> indent_stack, tokens |-> tokens]
    ELSE IF indent_level < indent_stack[Len(indent_stack)]
    THEN dedent_to(SubSeq(indent_stack, 1, Len(indent_stack) - 1),
                   Append(tokens, Token("DEDENT", "", line, 1)), indent_level, line)
    ELSE [stack |-> indent_stack, tokens |-> tokens]

\* lines 47-51: the locals of tokenize before its loop
start_of_text ==
    [pos |-> 0, tokens |-> <<>>, indent_stack |-> <<0>>, line_num |-> 1, line_start |-> 0]

\* lines 55-92: one iteration of the scanning loop, at pos < len(text): the locals after
\* it, or the exception raised.  An iteration that selects an empty match leaves pos
\* where it is.
scan(token_specs, text, st) ==
    bind(best_spec(token_specs, text, st.pos), LAMBDA best :
    IF best.spec = 0
    THEN Raise("SyntaxError", "Unexpected character at L" \o ToString(st.line_num) \o ":C"
                   \o ToString(st.pos - st.line_start + 1) \o ": '"
                   \o Ch(text, st.pos + 1) \o "'")
    ELSE
    bind(token_specs[best.spec], LAMBDA spec :
    bind(SubSeq(text, st.pos + 1, best.end), LAMBDA value :
    bind(get(spec, "action", ""), LAMBDA action :
    LET col == st.pos - st.line_start + 1
        indent_level == Len(value) - 1
        pushed == IF indent_level > st.indent_stack[Len(st.indent_stack)]
                  THEN [stack |-> Append(st.indent_stack, indent_level),
                        tokens |-> Append(st.tokens, Token("INDENT", "", st.line_num + 1, 1))]
                  ELSE [stack |-> st.indent_stack, tokens |-> st.tokens]
    IN
    bind(dedent_to(pushed.stack, pushed.tokens, indent_level, st.line_num + 1),
         LAMBDA popped :
    bind(count_char(value, "\n"), LAMBDA newlines :
    bind(IF action = "handle_indent" THEN popped
         ELSE IF action # "skip"
         THEN [stack |-> st.indent_stack,
               tokens |-> Append(st.tokens,
                                 Token(get(spec, "token", ""), value, st.line_num, col))]
         ELSE [stack |-> st.indent_stack, tokens |-> st.tokens], LAMBDA after :
    IF action = "handle_indent" /\ Len(popped.stack) = 0
    THEN Raise("IndexError", "list index out of range")
    ELSE IF action = "handle_indent" /\ indent_level # popped.stack[Len(popped.stack)]
    THEN Raise("IndentationError", "Indentation error at L" \o ToString(st.line_num + 1))
    ELSE [ok |-> TRUE,
          pos |-> best.end,
          tokens |-> after.tokens,
          indent_stack |-> after.stack,
          line_num |-> IF newlines > 0 THEN st.line_num + newlines ELSE st.line_num,
          line_start |-> IF newlines > 0 THEN st.pos + rfind(value, "\n") + 1
                         ELSE st.line_start])))))))

\* line 41: self.handles_indentation
handles_indentation(token_specs) ==
    \E i \in 1..Len(token_specs) : get(token_specs[i], "action", "") = "handle_indent"

\* the tokens returned without the final dedents
final_tokens_as_scanned(token_specs, st) == st.tokens

\* lines 97-103: the tokens returned, with a DEDENT for each level left on the stack
final_tokens(token_specs, st) ==
    IF handles_indentation(token_specs)
    THEN st.tokens \o [i \in 1..(Len(st.indent_stack) - 1) |->
                          Token("DEDENT", "", st.line_num, 1)]
    ELSE st.tokens

\* lines 54-103: the scanning loop and the final dedents
RECURSIVE tokenize_from(_, _, _)
tokenize_from(token_specs, text, st) ==
    IF ~(st.pos < Len(text)) THEN [ok |-> TRUE, tokens |-> final_tokens(token_specs, st)]
    ELSE unless_raised(scan(token_specs, text, st), LAMBDA after :
         \* pos as before: the next iteration selects the same match, and so on
         \* without end ("hang")
         IF after.pos = st.pos THEN [ok |-> FALSE, exc |-> "hang", msg |-> ""]
         ELSE tokenize_from(token_specs, text, after))

\* lines 45-103
tokenize(lexer_config, text) ==
    tokenize_from(get(lexer_config, "tokens", <<>>), expandtabs(text, 8, 0), start_of_text)

----------------------------------------------------------------------------
(* 4. AST-to-string transpiler.  A Transpiler object is a record of its    *)
(* attributes [transpile_rules, indent_str, indent_level, state].  A       *)
(* `state_set` is the sequence of its items [key, value], in order.  The   *)
(* dicts that are values of `state_set` items are objects of the           *)
(* configuration: a place that holds one holds a reference to it,          *)
(* [k |-> "ref", tag, item], and a write through the reference changes     *)
(* transpile_rules.  Templates hold fields {name} only (no {{, no          *)
(* conversions), and a path template names substitutions only.             *)

\* Transpiler(transpile_grammar): lines 525-533
Transpiler(config) ==
    [transpile_rules |-> get(config, "rules", EmptyDict),
     indent_str |-> get(get(config, "transpiler", EmptyDict), "indent", "    "),
     indent_level |-> 0,
     state |-> EmptyDict]

\* an exception raised while the object is as given
RaiseIn(obj, exc, msg) == [ok |-> FALSE, exc |-> exc, msg |-> msg, obj |-> obj]

\* body(result), unless the result is a raised exception, which leaves the object as given
unless_raised_in(obj, result, body(_)) ==
    IF result.ok THEN body(result) ELSE RaiseIn(obj, result.exc, result.msg)

\* str(v) of a scalar (the repr of a container is not modelled: "...")
py_str(v) ==
    IF v.k = "str" THEN v.v
    ELSE IF v.k = "int" THEN ToString(v.v)
    ELSE IF v.k = "bool" THEN (IF v.v THEN "True" ELSE "False")
    ELSE IF v.k = "None" THEN "None"
    ELSE "..."

\* bool(v)
py_bool(v) ==
    IF v.k = "str" THEN v.v # ""
    ELSE IF v.k = "int" THEN v.v # 0
    ELSE IF v.k = "bool" THEN v.v
    ELSE IF v.k = "None" THEN FALSE
    ELSE IF v.k = "dict" THEN DOMAIN v.d # {}
    ELSE IF v.k = "list" THEN Len(v.items) > 0
    ELSE TRUE

\* the place of the first "}" of a string (0: none)
closing_brace(s) ==
    bind({i \in 1..Len(s) : Ch(s, i) = "}"}, LAMBDA at :
    IF at = {} THEN 0 ELSE CHOOSE i \in at : \A j \in at : i <= j)

\* template.format(**subs)
RECURSIVE format(_, _)
format(template, subs) ==
    IF Len(template) = 0 THEN Ok("")
    ELSE IF Head(template) = "{"
    THEN bind(closing_brace(template), LAMBDA close :
         IF close = 0 THEN ValueError("expected '}' before end of string")
         ELSE bind(SubSeq(template, 2, close - 1), LAMBDA field :
              IF field \notin DOMAIN subs THEN Raise("KeyError", field)
              ELSE unless_raised(format(SubSeq(template, close + 1, Len(template)), subs),
                                 LAMBDA rest : Ok(subs[field] \o rest.s))))
    ELSE unless_raised(format(Tail(template), subs), LAMBDA rest :
         Ok(Head(template) \o rest.s))

\* the dict a value is or refers to
deref(transpile_rules, v) ==
    IF v.k = "ref" THEN transpile_rules[v.tag].state_set[v.item].value ELSE v

\* reduce(getitem, keys, value) below self.state: None stands for KeyError and TypeError
RECURSIVE resolve_in_state(_, _, _)
resolve_in_state(transpile_rules, value, keys) ==
    IF Len(keys) = 0 THEN value
    ELSE bind(deref(transpile_rules, value), LAMBDA d :
         IF d.k = "dict" /\ Head(keys) \in DOMAIN d.d
         THEN resolve_in_state(transpile_rules, d.d[Head(keys)], Tail(keys))
         ELSE None)

\* reduce(getitem, keys, value) below the node: its tag and text are strings, its line
\* and col integers, its named children nodes
RECURSIVE resolve_in_node(_, _)
resolve_in_node(node, keys) ==
    IF Len(keys) = 0 THEN node
    ELSE IF ~is_dict(node) \/ Head(keys) \notin DOMAIN node.d THEN None
    ELSE bind(Head(keys), LAMBDA key :
         IF key \in {"tag", "text"}
         THEN (IF Len(keys) = 1 THEN PyStr(node.d[key]) ELSE None)
         ELSE IF key \in {"line", "col"}
         THEN (IF Len(keys) = 1 THEN PyInt(node.d[key]) ELSE None)
         ELSE IF key = "children" /\ is_dict(node.d.children)
         THEN IF Len(keys) = 1 THEN node.d.children
              ELSE IF keys[2] \in DOMAIN node.d.children.d
              THEN resolve_in_node(node.d.children.d[keys[2]], SubSeq(keys, 3, Len(keys)))
              ELSE None
         ELSE IF key \in {"op", "left", "right"}
         THEN resolve_in_node(node.d[key], Tail(keys))
         ELSE (IF Len(keys) = 1 THEN node.d[key] ELSE None))

\* lines 548-553: the path resolved in the context {'node', 'state', **subs}
_resolve_path_in_context(path, obj, node, subs) ==
    bind(split(path, "."), LAMBDA keys :
    IF Head(keys) \in DOMAIN subs
    THEN (IF Len(keys) = 1 THEN PyStr(subs[Head(keys)]) ELSE None)
    ELSE IF Head(keys) = "node" THEN resolve_in_node(node, Tail(keys))
    ELSE IF Head(keys) = "state"
    THEN resolve_in_state(obj.transpile_rules, Dict(obj.state), Tail(keys))
    ELSE None)

\* lines 555-576
_evaluate_condition(condition_dict, obj, node, subs) ==
    IF "path" \notin DOMAIN condition_dict
    THEN ValueError("Condition must have a 'path' key")
    ELSE unless_raised(format(condition_dict.path, subs), LAMBDA path :
         bind(_resolve_path_in_context(path.s, obj, node, subs), LAMBDA actual_val :
         bind(IF "equals" \in DOMAIN condition_dict
              THEN py_str(actual_val) = py_str(condition_dict.equals)
              ELSE py_bool(actual_val), LAMBDA result :
         [ok |-> TRUE,
          b |-> IF get(condition_dict, "negate", FALSE) THEN ~result ELSE result])))

\* lines 541-546: d[keys[-1]] = value below the dict d, through the dicts that
\* setdefault finds or makes; a dict of the configuration is changed in place
RECURSIVE set_in(_, _, _, _)
set_in(transpile_rules, d, keys, value) ==
    IF Len(keys) = 1
    THEN [ok |-> TRUE, d |-> (Head(keys) :> value) @@ d, transpile_rules |-> transpile_rules]
    ELSE bind(get(d, Head(keys), Dict(EmptyDict)), LAMBDA next :
         IF next.k = "dict"
         THEN unless_raised(set_in(transpile_rules, next.d, Tail(keys), value), LAMBDA below :
              [ok |-> TRUE, d |-> (Head(keys) :> Dict(below.d)) @@ d,
               transpile_rules |-> below.transpile_rules])
         ELSE IF next.k = "ref"
         THEN unless_raised(set_in(transpile_rules, deref(transpile_rules, next).d,
                                   Tail(keys), value), LAMBDA below :
              [ok |-> TRUE, d |-> d,
               transpile_rules |->
                   [below.transpile_rules
                        EXCEPT ![next.tag].state_set[next.item].value = Dict(below.d)]])
         ELSE IF Len(keys) = 2
         THEN Raise("TypeError", "object does not support item assignment")
         ELSE Raise("AttributeError", "object has no attribute 'setdefault'"))

_set_path(obj, path, value) ==
    unless_raised_in(obj, set_in(obj.transpile_rules, obj.state, split(path, "."), value),
                     LAMBDA after :
    [ok |-> TRUE,
     obj |-> [obj EXCEPT !.state = after.d, !.transpile_rules = after.transpile_rules]])

\* s * n
RECURSIVE repeated(_, _)
repeated(s, n) == IF n <= 0 THEN "" ELSE s \o repeated(s, n - 1)

\* the names of a set, in some order
RECURSIVE in_some_order(_)
in_some_order(names) ==
    IF names = {} THEN <<>>
    ELSE bind(CHOOSE name \in names : TRUE, LAMBDA name :
         <<name>> \o in_some_order(names \ {name}))

\* the names of a dict of children, in the order of its items
names_of(children) ==
    IF "order" \in DOMAIN children THEN children.order ELSE in_some_order(DOMAIN children.d)

\* lines 624-636: the first case that applies
RECURSIVE first_case(_, _, _, _)
first_case(cases, obj, node, subs) ==
    IF Len(cases) = 0 THEN [ok |-> TRUE, template |-> None]
    ELSE bind(Head(cases), LAMBDA case :
         IF "if" \in DOMAIN case
         THEN unless_raised(_evaluate_condition(case["if"], obj, node, subs), LAMBDA holds :
              IF holds.b THEN [ok |-> TRUE, template |-> PyStr(case["then"])]
              ELSE first_case(Tail(cases), obj, node, subs))
         ELSE IF "default" \in DOMAIN case
         THEN [ok |-> TRUE, template |-> PyStr(case["default"])]
         ELSE first_case(Tail(cases), obj, node, subs))

\* lines 622-638
select_template(transpile_config, obj, node, subs) ==
    IF "cases" \in DOMAIN transpile_config
    THEN first_case(transpile_config.cases, obj, node, subs)
    ELSE IF "template" \in DOMAIN transpile_config
    THEN [ok |-> TRUE, template |-> PyStr(transpile_config.template)]
    ELSE [ok |-> TRUE, template |-> None]

\* lines 640-651
produce_output(transpile_config, node, template, subs) ==
    IF template # None THEN format(template.v, subs)
    ELSE IF get(transpile_config, "use", "") = "value"
    THEN Ok(IF "value" \in DOMAIN node.d THEN py_str(node.d.value) ELSE "")
    ELSE IF get(transpile_config, "use", "") = "text"
    THEN (IF "text" \in DOMAIN node.d THEN Ok(node.d.text) ELSE Raise("KeyError", "text"))
    ELSE IF "value" \in DOMAIN transpile_config THEN Ok(transpile_config.value)
    ELSE IF "value" \in DOMAIN node.d THEN Ok(py_str(node.d.value))
    ELSE IF "text" \in DOMAIN node.d THEN Ok(node.d.text)
    ELSE ValueError("Don't know how to transpile node")

\* lines 654-659: the items of a state_set from the i-th on
RECURSIVE apply_state_set(_, _, _, _, _)
apply_state_set(obj, tag, items, i, subs) ==
    IF i > Len(items) THEN [ok |-> TRUE, obj |-> obj]
    ELSE unless_raised_in(obj, format(items[i].key, subs), LAMBDA final_key :
         unless_raised_in(obj, IF items[i].value.k = "str" THEN format(items[i].value.v, subs)
                               ELSE Ok(""), LAMBDA formatted :
         bind(IF items[i].value.k = "str" THEN PyStr(formatted.s)
              ELSE IF items[i].value.k = "dict" THEN [k |-> "ref", tag |-> tag, item |-> i]
              ELSE items[i].value, LAMBDA final_value :
         unless_raised(_set_path(obj, final_key.s, final_value), LAMBDA after :
         apply_state_set(after.obj, tag, items, i + 1, subs)))))

RECURSIVE _transpile_node(_, _)

\* _transpile_node of each node in turn
RECURSIVE transpile_each(_, _)
transpile_each(obj, nodes) ==
    IF Len(nodes) = 0 THEN [ok |-> TRUE, strs |-> <<>>, obj |-> obj]
    ELSE unless_raised(_transpile_node(obj, Head(nodes)), LAMBDA h :
         unless_raised(transpile_each(h.obj, Tail(nodes)), LAMBDA t :
         [ok |-> TRUE, strs |-> <<h.s>> \o t.strs, obj |-> t.obj]))

\* lines 608-609 and 618-620: the named parts of a node, from the i-th name on
RECURSIVE transpile_named(_, _, _, _, _)
transpile_named(obj, d, names, i, subs) ==
    IF i > Len(names) THEN [ok |-> TRUE, subs |-> subs, obj |-> obj]
    ELSE unless_raised(_transpile_node(obj, d[names[i]]), LAMBDA part :
         transpile_named(part.obj, d, names, i + 1, (names[i] :> part.s) @@ subs))

\* lines 605-616: the substitutions of the node's children
children_subs(obj, node, transpile_config, current_indent) ==
    bind(get(node.d, "children", List(<<>>)), LAMBDA children :
    IF children.k = "dict"
    THEN transpile_named(obj, children.d, names_of(children), 1, EmptyDict)
    ELSE IF children.k = "list"
    THEN unless_raised(transpile_each(obj, children.items), LAMBDA each :
         bind(SelectSeq(each.strs, LAMBDA str : str # ""), LAMBDA child_strings :
         bind(join(replace(get(transpile_config, "join_children_with", " "), "\n",
                           "\n" \o current_indent), child_strings), LAMBDA joined :
         [ok |-> TRUE, obj |-> each.obj,
          subs |-> [children |-> IF get(transpile_config, "indent", FALSE) /\ joined # ""
                                 THEN current_indent \o joined ELSE joined]])))
    ELSE [ok |-> TRUE, subs |-> EmptyDict, obj |-> obj])

\* lines 585-661
_transpile_node(obj, node) ==
    IF node.k = "list"
    THEN unless_raised(transpile_each(obj, SelectSeq(node.items, LAMBDA n :
                                                n # None /\ n # List(<<>>))), LAMBDA each :
         [ok |-> TRUE, s |-> join(" ", each.strs), obj |-> each.obj])
    ELSE IF node.k # "dict"
    THEN [ok |-> TRUE, s |-> IF py_bool(node) THEN py_str(node) ELSE "", obj |-> obj]
    ELSE
    bind(get(obj.transpile_rules, get(node.d, "tag", ""), EmptyDict), LAMBDA transpile_config :
    bind(IF get(transpile_config, "indent", FALSE)
         THEN [obj EXCEPT !.indent_level = @ + 1] ELSE obj, LAMBDA entered :
    bind(repeated(entered.indent_str, entered.indent_level), LAMBDA current_indent :
    unless_raised(children_subs(entered, node, transpile_config, current_indent), LAMBDA cs :
    unless_raised(transpile_named(cs.obj, node.d,
                                  SelectSeq(<<"op", "left", "right">>,
                                            LAMBDA name : name \in DOMAIN node.d),
                                  1, cs.subs), LAMBDA named :
    unless_raised_in(named.obj, select_template(transpile_config, named.obj, node, named.subs),
                     LAMBDA selected :
    unless_raised_in(named.obj, produce_output(transpile_config, node, selected.template,
                                               named.subs), LAMBDA output :
    unless_raised(apply_state_set(named.obj, get(node.d, "tag", ""),
                                  get(transpile_config, "state_set", <<>>), 1, named.subs),
                  LAMBDA set :
    [ok |-> TRUE, s |-> output.s,
     obj |-> IF get(transpile_config, "indent", FALSE)
             THEN [set.obj EXCEPT !.indent_level = @ - 1] ELSE set.obj]))))))))

\* lines 577-583
transpile(obj, node) ==
    IF ~is_dict(node) \/ "tag" \notin DOMAIN node.d
    THEN RaiseIn(obj, "ValueError", "Transpilation must start from a valid AST node.")
    ELSE _transpile_node([obj EXCEPT !.indent_level = 0, !.state = EmptyDict], node)

----------------------------------------------------------------------------
(* 5. Parser core: the cleanup pass *)

has_internal_tag(item) == is_dict(item) /\ contains(get(item.d, "tag", ""), SEP)

RECURSIVE _cleanup_ast(_)
_cleanup_ast(node) ==
    IF is_list(node)
    THEN LET kept == SelectSeq(node.items, LAMBDA item : ~has_internal_tag(item)) IN
         List([i \in 1..Len(kept) |-> _cleanup_ast(kept[i])])
    ELSE IF is_dict(node)
    THEN IF "tag" \in DOMAIN node.d
         THEN IF "children" \in DOMAIN node.d
              THEN Dict([node.d EXCEPT !.children = _cleanup_ast(node.d.children)])
              ELSE node
         ELSE Dict([key \in {key \in DOMAIN node.d : ~has_internal_tag(node.d[key])} |->
                       _cleanup_ast(node.d[key])])
    ELSE node

----------------------------------------------------------------------------
(* 5. Parser core: the shape of a grammar definition *)

\* A rule definition's value under these keys is a list of definitions, under those a
\* single definition; under every other key (literal, regex, rule, token) it is a string.
ListKeys == <<"choice", "sequence">>
DictKeys == <<"zero_or_more", "one_or_more", "optional", "positive_lookahead",
              "negative_lookahead">>
in_keys(key, keys) == \E i \in 1..Len(keys) : keys[i] = key

\* the definitions directly inside a definition, `ast` and `subgrammar` blocks apart
RECURSIVE parts_under(_, _)
parts_under(node, keys) ==
    IF Len(keys) = 0 THEN <<>>
    ELSE (IF Head(keys) \notin DOMAIN node THEN <<>>
          ELSE IF in_keys(Head(keys), ListKeys) THEN node[Head(keys)]
          ELSE <<node[Head(keys)]>>) \o parts_under(node, Tail(keys))

parts_of(node) == parts_under(node, ListKeys \o DictKeys)

\* the definition with F applied to each definition directly inside it
map_parts(node, F(_)) ==
    [key \in DOMAIN node |->
        IF in_keys(key, ListKeys) THEN [i \in 1..Len(node[key]) |-> F(node[key][i])]
        ELSE IF in_keys(key, DictKeys) THEN F(node[key])
        ELSE node[key]]

----------------------------------------------------------------------------
(* 5. Parser core: _normalize_grammar *)

inline_rule_keys ==
    {"literal", "regex", "choice", "sequence", "zero_or_more", "one_or_more",
     "optional", "positive_lookahead", "negative_lookahead", "token"}

\* lines 908-927
is_inline_def_with_ast(d) ==
    /\ "ast" \in DOMAIN d
    /\ DOMAIN d.ast # {"name"}
    /\ "rule" \notin DOMAIN d
    /\ DOMAIN d \cap inline_rule_keys # {}

\* lines 933-940 and 949-956: the item becomes a rule of its own, named after the
\* rule it is in and the counter; st is the counter and the rules added so far
hoist(item, base_name, st) ==
    LET counter == st.counter + 1
        new_rule_name == base_name \o SEP \o ToString(counter)
        rest == [key \in DOMAIN item \ {"ast"} |-> item[key]]
    IN  [node |-> [rule |-> new_rule_name],
         st |-> [counter |-> counter,
                 added |-> Append(st.added,
                                  [name |-> new_rule_name,
                                   def |-> [ast |-> item.ast, sequence |-> <<rest>>]])]]

RECURSIVE walker(_, _, _)
RECURSIVE walker_list(_, _, _, _)
RECURSIVE walker_keys(_, _, _, _)

walker_item(item, base_name, st) ==
    IF is_inline_def_with_ast(item) THEN hoist(item, base_name, st)
    ELSE walker(item, base_name, st)

\* lines 930-942
walker_list(items, base_name, st, done) ==
    IF Len(items) = 0 THEN [node |-> done, st |-> st]
    ELSE bind(walker_item(Head(items), base_name, st), LAMBDA r :
         walker_list(Tail(items), base_name, r.st, Append(done, r.node)))

\* lines 943-958
walker_keys(node, keys, base_name, st) ==
    IF Len(keys) = 0 THEN [node |-> node, st |-> st]
    ELSE LET key == Head(keys) IN
         IF key \notin DOMAIN node THEN walker_keys(node, Tail(keys), base_name, st)
         ELSE bind(IF in_keys(key, ListKeys)
                   THEN walker_list(node[key], base_name, st, <<>>)
                   ELSE walker_item(node[key], base_name, st), LAMBDA r :
              walker_keys([node EXCEPT ![key] = r.node], Tail(keys), base_name, r.st))

walker(node, base_name, st) == walker_keys(node, ListKeys \o DictKeys, base_name, st)

RECURSIVE add_rules(_, _)
add_rules(grammar_dict, added) ==
    IF Len(added) = 0 THEN grammar_dict
    ELSE LET new == Head(added)
             rules == [name \in DOMAIN grammar_dict.rules \cup {new.name} |->
                          IF name = new.name THEN new.def ELSE grammar_dict.rules[name]]
             order == IF new.name \in DOMAIN grammar_dict.rules THEN grammar_dict.order
                      ELSE Append(grammar_dict.order, new.name)
         IN  add_rules([grammar_dict EXCEPT !.rules = rules, !.order = order], Tail(added))

\* lines 960-975: every rule is walked once, the rules the walk adds included
RECURSIVE normalize_from(_, _)
normalize_from(grammar_dict, i) ==
    IF i > Len(grammar_dict.order) THEN grammar_dict
    ELSE LET name == grammar_dict.order[i] IN
         bind(walker(grammar_dict.rules[name], name, [counter |-> 0, added |-> <<>>]),
              LAMBDA r :
         LET walked == [grammar_dict EXCEPT !.rules[name] = r.node]
         IN  normalize_from(add_rules(walked, r.st.added), i + 1))

_normalize_grammar(grammar_dict) ==
    IF "rules" \notin DOMAIN grammar_dict THEN grammar_dict
    ELSE normalize_from(grammar_dict, 1)

----------------------------------------------------------------------------
(* 5. Parser core: the linter *)

\* lines 777-788: the names under a `rule` key anywhere in a definition
RECURSIVE find_references(_)
RECURSIVE find_references_in(_)
find_references_in(items) ==
    IF Len(items) = 0 THEN {}
    ELSE find_references(Head(items)) \cup find_references_in(Tail(items))
find_references(rule_def) ==
    (IF "rule" \in DOMAIN rule_def THEN {rule_def.rule} ELSE {})
        \cup find_references_in(parts_of(rule_def))

\* lines 790-811: the names the queue reaches
RECURSIVE reach(_, _, _)
reach(rules, queue, reachable) ==
    LET fresh == queue \ reachable IN
    IF fresh = {} THEN reachable
    ELSE reach(rules,
               UNION {find_references(rules[name]) : name \in fresh \cap DOMAIN rules},
               reachable \cup fresh)

\* lines 762-818; the walk gives up when it meets a name that is no rule
_check_for_unreachable_rules(grammar_dict, external_refs) ==
    LET all_rules == DOMAIN grammar_dict.rules
        start_rule == get(grammar_dict, "start_rule", "start")
    IN  IF start_rule \notin all_rules THEN Ok("")
        ELSE bind(reach(grammar_dict.rules, {start_rule} \cup external_refs, {}),
                  LAMBDA reachable :
             LET unreachable == {rule \in all_rules \ reachable : ~contains(rule, SEP)} IN
             IF ~(reachable \subseteq all_rules) THEN Ok("")
             ELSE IF unreachable # {} THEN ValueError("Unreachable rules detected")
             ELSE Ok(""))

RECURSIVE _is_def_always_empty(_, _, _)
RECURSIVE _is_rule_always_empty(_, _, _)
RECURSIVE all_always_empty(_, _, _)

\* The answer of the predicate comes with the memo after it and with the rules whose
\* bodies it examined (`examined`), in the order of their examination.

\* all(self._is_def_always_empty(part, ...) for part in parts): ends at the first False
all_always_empty(parts, memo, grammar_dict) ==
    IF Len(parts) = 0 THEN [v |-> TRUE, memo |-> memo, examined |-> <<>>]
    ELSE bind(_is_def_always_empty(Head(parts), memo, grammar_dict), LAMBDA h :
         IF ~h.v THEN h
         ELSE bind(all_always_empty(Tail(parts), h.memo, grammar_dict), LAMBDA t :
              [v |-> t.v, memo |-> t.memo, examined |-> h.examined \o t.examined]))

token_spec_is_empty(grammar_dict, token_type) ==
    LET specs == get(grammar_dict.lexer, "tokens", <<>>)
        found == {i \in 1..Len(specs) : get(specs[i], "token", "") = token_type}
    IN  IF found = {} THEN FALSE
        ELSE bind(specs[CHOOSE i \in found : \A j \in found : i <= j], LAMBDA spec :
             get(spec, "action", "") = "skip" \/ get(get(spec, "ast", EmptyDict), "discard", FALSE))

\* lines 820-855
_is_def_always_empty(rule_def, memo, grammar_dict) ==
    LET ast_config == get(rule_def, "ast", EmptyDict)
        no == [v |-> FALSE, memo |-> memo, examined |-> <<>>]
        yes == [v |-> TRUE, memo |-> memo, examined |-> <<>>]
        quantifiers == {q \in {"one_or_more", "zero_or_more", "optional"} : q \in DOMAIN rule_def}
    IN  IF get(ast_config, "discard", FALSE) THEN yes
        ELSE IF "structure" \in DOMAIN ast_config THEN no
        ELSE IF "rule" \in DOMAIN rule_def
        THEN _is_rule_always_empty(rule_def.rule, memo, grammar_dict)
        ELSE IF "lexer" \in DOMAIN grammar_dict /\ "token" \in DOMAIN rule_def
        THEN [v |-> token_spec_is_empty(grammar_dict, rule_def.token), memo |-> memo,
              examined |-> <<>>]
        ELSE IF "literal" \in DOMAIN rule_def \/ "regex" \in DOMAIN rule_def
                \/ get(ast_config, "leaf", FALSE)
        THEN no
        ELSE IF "positive_lookahead" \in DOMAIN rule_def \/ "negative_lookahead" \in DOMAIN rule_def
        THEN yes
        ELSE IF "choice" \in DOMAIN rule_def
        THEN all_always_empty(rule_def.choice, memo, grammar_dict)
        ELSE IF "sequence" \in DOMAIN rule_def
        THEN IF \E i \in 1..Len(rule_def.sequence) :
                    "name" \in DOMAIN get(rule_def.sequence[i], "ast", EmptyDict)
             THEN no
             ELSE all_always_empty(rule_def.sequence, memo, grammar_dict)
        ELSE IF quantifiers # {}
        THEN _is_def_always_empty(
                 rule_def[IF "one_or_more" \in quantifiers THEN "one_or_more"
                          ELSE IF "zero_or_more" \in quantifiers THEN "zero_or_more"
                          ELSE "optional"], memo, grammar_dict)
        ELSE no

\* a rule seeded as empty while its body is examined
seeded_as_empty(rule_name, memo, grammar_dict) ==
    IF rule_name \in DOMAIN memo
    THEN [v |-> memo[rule_name], memo |-> memo, examined |-> <<>>]
    ELSE IF rule_name \notin DOMAIN grammar_dict.rules
    THEN [v |-> FALSE, memo |-> memo, examined |-> <<>>]
    ELSE LET seeded == (rule_name :> TRUE) @@ memo IN
         bind(_is_def_always_empty(grammar_dict.rules[rule_name], seeded, grammar_dict),
              LAMBDA r : [v |-> r.v, memo |-> (rule_name :> r.v) @@ r.memo,
                          examined |-> <<rule_name>> \o r.examined])

\* lines 857-870: memo maps the rules seen so far to their answer
_is_rule_always_empty(rule_name, memo, grammar_dict) ==
    IF rule_name \in DOMAIN memo
    THEN [v |-> memo[rule_name], memo |-> memo, examined |-> <<>>]
    ELSE IF rule_name \notin DOMAIN grammar_dict.rules
    THEN [v |-> FALSE, memo |-> memo, examined |-> <<>>]
    ELSE LET seeded == (rule_name :> FALSE) @@ memo IN
         bind(_is_def_always_empty(grammar_dict.rules[rule_name], seeded, grammar_dict),
              LAMBDA r : [v |-> r.v, memo |-> (rule_name :> r.v) @@ r.memo,
                          examined |-> <<rule_name>> \o r.examined])

\* lines 877-888: the rules reported, in the order of the rules
RECURSIVE implicitly_empty_rules(_, _, _)
implicitly_empty_rules(grammar_dict, names, memo) ==
    IF Len(names) = 0 THEN <<>>
    ELSE LET rule_name == Head(names)
             rule_def == grammar_dict.rules[rule_name]
         IN  IF get(get(rule_def, "ast", EmptyDict), "discard", FALSE)
                \/ "positive_lookahead" \in DOMAIN rule_def
                \/ "negative_lookahead" \in DOMAIN rule_def
             THEN implicitly_empty_rules(grammar_dict, Tail(names), memo)
             ELSE bind(_is_rule_always_empty(rule_name, memo, grammar_dict), LAMBDA r :
                  (IF r.v THEN <<rule_name>> ELSE <<>>)
                      \o implicitly_empty_rules(grammar_dict, Tail(names), r.memo))

_check_for_always_empty_rules(grammar_dict) ==
    IF Len(implicitly_empty_rules(grammar_dict, grammar_dict.order, EmptyDict)) > 0
    THEN ValueError("The following rules will always produce an empty AST node")
    ELSE Ok("")

\* no rule's directives are looked at
no_lint_directives(rules, names) == Ok("")

\* lines 719-731: the first rule with two directives that exclude each other
RECURSIVE lint_directives(_, _)
lint_directives(rules, names) ==
    IF Len(names) = 0 THEN Ok("")
    ELSE LET ast_config == get(rules[Head(names)], "ast", EmptyDict)
             has_promote == get(ast_config, "promote", FALSE)
             has_structure == "structure" \in DOMAIN ast_config
             has_discard == get(ast_config, "discard", FALSE)
         IN  IF has_promote /\ has_structure
             THEN ValueError("'promote' and 'structure' directives are mutually exclusive.")
             ELSE IF has_promote /\ has_discard
             THEN ValueError("'promote: true' is redundant when 'discard: true' is also present.")
             ELSE lint_directives(rules, Tail(names))

\* lines 710-731
_lint_grammar(grammar_dict, external_refs) ==
    unless_raised(_check_for_unreachable_rules(grammar_dict, external_refs),
                  LAMBDA reachable :
    unless_raised(_check_for_always_empty_rules(grammar_dict), LAMBDA productive :
    lint_directives(get(grammar_dict, "rules", EmptyDict), get(grammar_dict, "order", <<>>))))

----------------------------------------------------------------------------
(* 5. Parser core: compilation and parsing *)

\* lines 676-708: the grammar's configuration, or the exception raised
_compile_grammar_from_dict(grammar_dict, lint) ==
    bind(_normalize_grammar(grammar_dict), LAMBDA normalized :
    bind([key \in DOMAIN normalized \ {"_external_refs"} |-> normalized[key]],
         LAMBDA config_dict :
    LET external_refs == get(normalized, "_external_refs", {})
        is_token_grammar == "lexer" \in DOMAIN config_dict
    IN
    unless_raised(IF lint THEN _lint_grammar(config_dict, external_refs) ELSE Ok(""),
                  LAMBDA linted :
    unless_raised(transpile_grammar(config_dict), LAMBDA grammar_string :
    bind(Grammar(grammar_string.s), LAMBDA grammar :
    IF ~grammar.ok
    THEN IF grammar.exc = "UndefinedLabel"
         THEN ValueError("Rule '" \o grammar.msg \o "' is not defined in grammar.")
         ELSE IF grammar.exc = "VisitationError"
         THEN ValueError("Left-recursion detected in grammar.")
         ELSE grammar
    ELSE [ok |-> TRUE,
          grammar_dict |-> config_dict,
          is_token_grammar |-> is_token_grammar,
          grammar_string |-> grammar_string.s,
          grammar |-> grammar.exprs,
          start_rule |-> get(config_dict, "start_rule", "start")])))))

\* text[pos:pos+20].split('\n')[0]
snippet_at(text, pos) ==
    split(SubSeq(text, pos + 1, IF pos + 20 < Len(text) THEN pos + 20 ELSE Len(text)),
          "\n")[1]

\* lines 1033-1052: the message for a token grammar
token_error_message(tokens, error_pos) ==
    LET token_string == join(" ", [i \in 1..Len(tokens) |-> tokens[i].type]) IN
    bind(Len(split(SubSeq(token_string, 1, error_pos), " ")) - 1, LAMBDA error_token_idx :
    IF error_token_idx < Len(tokens)
    THEN bind(tokens[error_token_idx + 1], LAMBDA error_token :
         "Syntax error at L" \o ToString(error_token.line) \o ":C"
             \o ToString(error_token.col) \o " near '" \o error_token.value
             \o "'. Unexpected token: " \o error_token.type \o ".")
    ELSE "Syntax error at end of input.")

\* lines 1053-1079: the message for a text grammar (the expected rules are left out)
text_error_message(text, e) ==
    bind(find(text, e.pos), LAMBDA pos :
    bind("Syntax error at L" \o ToString(pos.line) \o ":C" \o ToString(pos.col), LAMBDA at :
    bind(snippet_at(text, e.pos), LAMBDA snippet :
    IF e.exc = "IncompleteParseError"
    THEN at \o ". Failed to consume entire input. Unconsumed input begins with: '"
            \o snippet \o "...'"
    ELSE IF snippet # "" THEN at \o " near '" \o snippet \o "...'"
    ELSE at \o ". Unexpected end of input.")))

Success(ast) == [status |-> "success", ast |-> ast]
Error(message) == [status |-> "error", message |-> message]
\* the call does not return a value: the exception leaves it
Uncaught(exc) == [status |-> "raised", exc |-> exc]
\* the call does not return at all
Hangs == [status |-> "hang"]

\* line 1032: except (ParseError, IncompleteParseError, SyntaxError, IndentationError)
caught_exceptions == {"ParseError", "IncompleteParseError", "SyntaxError", "IndentationError"}

\* lines 1012-1081: the result of the call and the visits the AST builder made
_parse_internal(text, config, start_rule_arg) ==
    LET start_rule == IF start_rule_arg = "" THEN config.start_rule ELSE start_rule_arg
        no_visits == <<>>
    IN
    bind(IF config.is_token_grammar
         THEN tokenize(config.grammar_dict.lexer, text)
         ELSE [ok |-> TRUE, tokens |-> <<>>], LAMBDA lexed :
    IF ~lexed.ok
    THEN [result |-> IF lexed.exc = "hang" THEN Hangs
                     ELSE IF lexed.exc \in caught_exceptions THEN Error(lexed.msg)
                     ELSE Uncaught(lexed.exc),
          visits |-> no_visits]
    ELSE IF start_rule \notin DOMAIN config.grammar
    THEN [result |-> Uncaught("KeyError"), visits |-> no_visits]
    ELSE
    bind(lexed.tokens, LAMBDA tokens :
    bind(IF config.is_token_grammar
         THEN join(" ", [i \in 1..Len(tokens) |-> tokens[i].type]) ELSE text, LAMBDA parsed :
    bind(expr_parse(config.grammar, config.grammar[start_rule], parsed), LAMBDA tree :
    IF ~tree.ok
    THEN [result |-> IF config.is_token_grammar
                     THEN Error(token_error_message(tokens, tree.pos))
                     ELSE Error(text_error_message(text, tree)),
          visits |-> no_visits]
    ELSE
    LET ctx == [grammar_dict |-> config.grammar_dict,
                text |-> text,
                parsed |-> parsed,
                tokens |-> IF config.is_token_grammar THEN List(tokens) ELSE None,
                token_rule_names |->
                    IF config.is_token_grammar /\ Len(tokens) > 0
                    THEN bind(token_types(config.grammar_dict), LAMBDA types :
                              {types[i] : i \in 1..Len(types)})
                    ELSE {}]
    IN
    bind(visit(ctx, tree, [token_idx |-> 0, visits |-> <<>>]), LAMBDA visited :
    IF visited.v.k = "raise"
    THEN [result |-> Uncaught("VisitationError"), visits |-> visited.st.visits]
    ELSE [result |-> Success(_cleanup_ast(visited.v)), visits |-> visited.st.visits])))))

----------------------------------------------------------------------------
(* 6. PlaceholderParser *)

\* only a directive that is a whole body gives way to its placeholder
replace_whole_body_only(node) ==
    IF "subgrammar" \in DOMAIN node
    THEN get(node.subgrammar, "placeholder", [sequence |-> <<>>])
             @@ [key \in DOMAIN node \ {"subgrammar"} |-> node[key]]
    ELSE node

\* lines 1083-1117: each subgrammar directive gives way to its placeholder
RECURSIVE _replace_subgrammars_with_placeholders(_)
_replace_subgrammars_with_placeholders(node) ==
    IF "subgrammar" \in DOMAIN node
    THEN LET placeholder_def == get(node.subgrammar, "placeholder", [sequence |-> <<>>]) IN
         placeholder_def @@ [key \in DOMAIN node \ {"subgrammar"} |-> node[key]]
    ELSE map_parts(node, LAMBDA part : _replace_subgrammars_with_placeholders(part))

\* lines 1137-1151: the configuration, or the exception raised
PlaceholderParser(grammar_dict) ==
    LET rules == get(grammar_dict, "rules", EmptyDict)
        replaced == [name \in DOMAIN rules |-> _replace_subgrammars_with_placeholders(rules[name])]
        config_dict == IF "rules" \in DOMAIN grammar_dict
                       THEN [grammar_dict EXCEPT !.rules = replaced] ELSE grammar_dict
    IN  _compile_grammar_from_dict(config_dict, FALSE)

----------------------------------------------------------------------------
(* 7. Parser: the grammar files merged into one grammar.  A path is a file *)
(* name: every file is in the directory of the main grammar, "_.yaml".     *)

RECURSIVE upper(_)
upper(s) ==
    IF Len(s) = 0 THEN ""
    ELSE LET c == Head(s)
             i == IF c \in Chars("abcdefghijklmnopqrstuvwxyz")
                  THEN index_of("abcdefghijklmnopqrstuvwxyz", c) ELSE 0
         IN  (IF i > 0 THEN SubSeq("ABCDEFGHIJKLMNOPQRSTUVWXYZ", i, i) ELSE c) \o upper(Tail(s))

capitalize(word) == IF Len(word) = 0 THEN "" ELSE upper(Head(word)) \o lower(Tail(word))

\* Path.stem: the name without its last suffix
stem(name) ==
    bind(rfind(name, "."), LAMBDA dot :
    IF dot > 0 THEN SubSeq(name, 1, dot) ELSE name)

\* lines 1216-1220; "" stands for None
_get_namespace(path) ==
    IF path = "_.yaml" THEN ""
    ELSE bind(split(replace(stem(path), "-", "_"), "_"), LAMBDA words :
         join("", [i \in 1..Len(words) |-> capitalize(words[i])]))

\* lines 746-757
RECURSIVE has_subgrammar_directive(_)
has_subgrammar_directive(node) ==
    \/ "subgrammar" \in DOMAIN node
    \/ LET parts == parts_of(node) IN
       \E i \in 1..Len(parts) : has_subgrammar_directive(parts[i])

\* lines 733-760
_lint_leaf_subgrammar_conflict(grammar_dict) ==
    LET rules == get(grammar_dict, "rules", EmptyDict) IN
    IF \E rule_name \in DOMAIN rules :
           /\ get(get(rules[rule_name], "ast", EmptyDict), "leaf", FALSE)
           /\ has_subgrammar_directive(rules[rule_name])
    THEN ValueError("defined as a 'leaf' node but contains a 'subgrammar' directive")
    ELSE Ok("")

\* lines 1386-1403: the subgrammar directives of a definition, in order
RECURSIVE find_subgrammars(_)
RECURSIVE find_subgrammars_in(_)
find_subgrammars_in(items) ==
    IF Len(items) = 0 THEN <<>>
    ELSE find_subgrammars(Head(items)) \o find_subgrammars_in(Tail(items))
find_subgrammars(node) ==
    IF "subgrammar" \in DOMAIN node THEN <<node>>
    ELSE find_subgrammars_in(parts_of(node))

\* lines 1378-1406
_get_subgrammar_dependencies(grammar_dict) ==
    LET order == get(grammar_dict, "order", <<>>) IN
    find_subgrammars_in([i \in 1..Len(order) |-> grammar_dict.rules[order[i]]])

paths_of(grammars) == {grammars[i].path : i \in 1..Len(grammars)}

\* lines 1238-1245: the files of the dependencies not yet processed are opened, in order
RECURSIVE open_deps(_, _, _)
open_deps(files, deps, processed_paths) ==
    IF Len(deps) = 0 THEN [ok |-> TRUE, opened |-> <<>>]
    ELSE LET sub_path == Head(deps).subgrammar.file IN
         IF sub_path \in processed_paths THEN open_deps(files, Tail(deps), processed_paths)
         ELSE IF sub_path \notin DOMAIN files THEN Raise("FileNotFoundError", sub_path)
         ELSE unless_raised(open_deps(files, Tail(deps), processed_paths), LAMBDA t :
              [ok |-> TRUE,
               opened |-> <<[path |-> sub_path, content |-> files[sub_path]]>> \o t.opened])

\* lines 1229-1245: the grammars discovered from the main one, breadth first
RECURSIVE discover(_, _, _)
discover(files, queue, grammars) ==
    IF Len(queue) = 0 THEN [ok |-> TRUE, grammars |-> grammars]
    ELSE LET current == Head(queue) IN
         IF current.path \in paths_of(grammars) THEN discover(files, Tail(queue), grammars)
         ELSE unless_raised(_lint_leaf_subgrammar_conflict(current.content), LAMBDA linted :
              unless_raised(open_deps(files, _get_subgrammar_dependencies(current.content),
                                      paths_of(grammars) \cup {current.path}), LAMBDA deps :
              discover(files, Tail(queue) \o deps.opened, Append(grammars, current))))

\* lines 1303-1316
RECURSIVE _rewrite_rule_references(_, _, _)
_rewrite_rule_references(node, namespace, local_rules) ==
    LET renamed == IF "rule" \in DOMAIN node /\ namespace # "" /\ node.rule \in local_rules
                   THEN [node EXCEPT !.rule = namespace \o "_" \o node.rule]
                   ELSE node
    IN  IF "subgrammar" \in DOMAIN node THEN renamed
        ELSE map_parts(renamed, LAMBDA part : _rewrite_rule_references(part, namespace, local_rules))

\* lines 1326-1339: the entry point of a subgrammar directive ("" when there is none)
subgrammar_start_rule(files, node) ==
    LET sub_config == node.subgrammar
        sub_content == files[sub_config.file]
    IN  IF get(sub_config, "rule", "") # "" THEN sub_config.rule
        ELSE get(sub_content, "start_rule", "")

qualified_start_rule(files, node) ==
    _get_namespace(node.subgrammar.file) \o "_" \o subgrammar_start_rule(files, node)

\* lines 1318-1352: each subgrammar directive becomes a reference to its entry point
RECURSIVE _rewrite_subgrammar_directives_in_place(_, _)
_rewrite_subgrammar_directives_in_place(files, node) ==
    IF "subgrammar" \in DOMAIN node
    THEN [key \in DOMAIN node \ {"subgrammar"} |-> node[key]]
             @@ [rule |-> qualified_start_rule(files, node)]
    ELSE map_parts(node, LAMBDA part : _rewrite_subgrammar_directives_in_place(files, part))

\* re.match(r'[A-Z][a-zA-Z0-9]*_', ref_name)
is_qualified(ref_name) ==
    /\ Len(ref_name) > 0
    /\ Head(ref_name) \in Chars("ABCDEFGHIJKLMNOPQRSTUVWXYZ")
    /\ \E i \in 2..Len(ref_name) :
           /\ Ch(ref_name, i) = "_"
           /\ \A j \in 2..(i - 1) : Ch(ref_name, j) \in LabelChars \ {"_"}

\* lines 1354-1376
_get_all_qualified_references(rules) ==
    {ref \in UNION {find_references(rules[name]) : name \in DOMAIN rules} : is_qualified(ref)}

\* lines 1250-1258: the rules of every grammar under their qualified names
RECURSIVE collect_rules(_, _)
collect_rules(grammars, unified) ==
    IF Len(grammars) = 0 THEN unified
    ELSE bind(_get_namespace(Head(grammars).path), LAMBDA namespace :
         LET content == Head(grammars).content
             order == get(content, "order", <<>>)
             added == [i \in 1..Len(order) |->
                          [name |-> IF namespace # "" THEN namespace \o "_" \o order[i]
                                    ELSE order[i],
                           def |-> content.rules[order[i]]]]
         IN  collect_rules(Tail(grammars), add_rules(unified, added)))

\* lines 1266-1274: the grammar a unified rule comes from (0 when none is found)
original_grammar(grammars, initial_grammar_dict, rule_name) ==
    IF rule_name \in DOMAIN get(initial_grammar_dict, "rules", EmptyDict) THEN 1
    ELSE bind(split(rule_name, "_")[1], LAMBDA namespace_part :
         bind({i \in 1..Len(grammars) :
                  /\ grammars[i].path # "_.yaml"
                  /\ _get_namespace(grammars[i].path) = namespace_part}, LAMBDA found :
         IF found = {} THEN 0 ELSE CHOOSE i \in found : \A j \in found : i <= j))

\* lines 1222-1301: the unified grammar, or the exception raised
_build_unified_grammar(files, initial_grammar_dict) ==
    unless_raised(discover(files, <<[path |-> "_.yaml", content |-> initial_grammar_dict]>>,
                           <<>>), LAMBDA discovered :
    bind(discovered.grammars, LAMBDA grammars :
    bind(collect_rules(grammars, [rules |-> EmptyDict, order |-> <<>>]), LAMBDA unified :
    \* the index of the grammar each unified rule comes from
    bind([rule_name \in DOMAIN unified.rules |->
             original_grammar(grammars, initial_grammar_dict, rule_name)], LAMBDA origin :
    \* lines 1276-1280: the references of each rule to rules of its own grammar, qualified
    bind([rule_name \in DOMAIN unified.rules |->
             bind(origin[rule_name], LAMBDA i :
                  IF i = 0 THEN unified.rules[rule_name]
                  ELSE _rewrite_rule_references(
                           unified.rules[rule_name], _get_namespace(grammars[i].path),
                           DOMAIN get(grammars[i].content, "rules", EmptyDict)))],
         LAMBDA referenced :
    bind(find_subgrammars_in([i \in 1..Len(unified.order) |->
                                 IF origin[unified.order[i]] = 0 THEN EmptyDict
                                 ELSE referenced[unified.order[i]]]), LAMBDA directives :
    bind([rule_name \in DOMAIN unified.rules |->
             IF origin[rule_name] = 0 THEN unified.rules[rule_name]
             ELSE _rewrite_subgrammar_directives_in_place(files, referenced[rule_name])],
         LAMBDA rules_copy :
    LET subgrammar_entry_points ==
            {qualified_start_rule(files, directives[i]) : i \in 1..Len(directives)}
        all_start_rules ==
            {bind(_get_namespace(grammars[i].path), LAMBDA namespace :
                  IF namespace # ""
                  THEN namespace \o "_" \o grammars[i].content.start_rule
                  ELSE grammars[i].content.start_rule) :
                 i \in {j \in 1..Len(grammars) : "start_rule" \in DOMAIN grammars[j].content}}
        all_external_refs == subgrammar_entry_points
                                 \cup _get_all_qualified_references(rules_copy)
                                 \cup all_start_rules
    IN  IF \E i \in 1..Len(directives) : subgrammar_start_rule(files, directives[i]) = ""
        THEN ValueError("Subgrammar must have a 'start_rule' or a 'rule' must be specified.")
        ELSE IF "start_rule" \notin DOMAIN initial_grammar_dict
        THEN ValueError("The main grammar must have a 'start_rule'.")
        ELSE [ok |-> TRUE,
              s |-> [key \in DOMAIN initial_grammar_dict \cup {"rules", "order", "_external_refs"} |->
                        IF key = "rules" THEN rules_copy
                        ELSE IF key = "order" THEN unified.order
                        ELSE IF key = "_external_refs" THEN all_external_refs
                        ELSE initial_grammar_dict[key]]])))))))

\* lines 1190-1214: Parser(grammar_dict): the configuration, or the exception raised
Parser(files, grammar_dict) ==
    unless_raised(_build_unified_grammar(files, grammar_dict), LAMBDA unified_grammar :
    _compile_grammar_from_dict(unified_grammar.s, TRUE))

----------------------------------------------------------------------------
(* 8. The dictionary of the caller.  A reference to a dictionary says      *)
(* whether the dictionary object is the caller's own (top) and whether the *)
(* objects held in it are the caller's own (nested); an assignment through *)
(* the reference reaches the caller's dictionary where the object is his.  *)

\* the argument grammar_dict of a constructor
callers_reference == [top |-> TRUE, nested |-> TRUE]

\* a reference that keeps the object it is given
same_object(ref) == ref

\* json.loads(json.dumps(obj)) (lines 905, 1141, 1257, 1259, 1262): every object is new
json_copy(ref) == [top |-> FALSE, nested |-> FALSE]

\* initial_grammar_dict.copy() (line 1287): a new dictionary that holds the objects of
\* the old one
dict_copy(ref) == [top |-> FALSE, nested |-> ref.nested]

\* the caller's dictionary after a key of the dictionary behind ref was assigned or
\* popped, the dictionary holding `after` then: it is his if the dictionary is
after_assignment(grammar_dict, ref, after) ==
    IF ref.top THEN after ELSE grammar_dict

\* the caller's dictionary after the rules held in the dictionary behind ref were
\* written to in place, the dictionary holding `after` then: his rules are those
\* written to if the objects held are his
after_write_in_place(grammar_dict, ref, after) ==
    IF ref.nested /\ "rules" \in DOMAIN grammar_dict /\ "rules" \in DOMAIN after
    THEN [key \in DOMAIN grammar_dict |->
             IF key \in {"rules", "order"} /\ key \in DOMAIN after THEN after[key]
             ELSE grammar_dict[key]]
    ELSE grammar_dict

\* lines 676-679: config['grammar_dict'] is the copy _normalize_grammar makes (line 905)
\* and hoists in (lines 908-975); _external_refs is popped from it (line 679)
grammar_dict_after_compile(grammar_dict, ref, compiled) ==
    bind(json_copy(ref), LAMBDA new_ref :
    bind(_normalize_grammar(compiled), LAMBDA normalized :
    after_assignment(after_write_in_place(grammar_dict, new_ref, normalized), new_ref,
                     [key \in DOMAIN normalized \ {"_external_refs"} |-> normalized[key]])))

\* lines 1137-1151: the caller's dictionary after PlaceholderParser(grammar_dict):
\* config_dict is a copy (line 1141) whose rules are replaced in place (line 1146)
grammar_dict_after_PlaceholderParser(grammar_dict) ==
    bind(json_copy(callers_reference), LAMBDA config_ref :
    bind(get(grammar_dict, "rules", EmptyDict), LAMBDA rules :
    bind(IF "rules" \in DOMAIN grammar_dict
         THEN [grammar_dict EXCEPT !.rules =
                  [name \in DOMAIN rules |->
                      _replace_subgrammars_with_placeholders(rules[name])]]
         ELSE grammar_dict, LAMBDA config_dict :
    grammar_dict_after_compile(after_write_in_place(grammar_dict, config_ref, config_dict),
                               config_ref, config_dict))))

\* lines 1190-1214: the caller's dictionary after Parser(grammar_dict): the unified
\* rules are copies (lines 1257-1262), final_grammar is initial_grammar_dict.copy()
\* (line 1287) and gets the keys rules and _external_refs (lines 1288, 1298)
grammar_dict_after_Parser(files, grammar_dict) ==
    bind(dict_copy(callers_reference), LAMBDA final_ref :
    bind(_build_unified_grammar(files, grammar_dict), LAMBDA unified_grammar :
    IF ~unified_grammar.ok THEN grammar_dict
    ELSE grammar_dict_after_compile(
             after_assignment(grammar_dict, final_ref, unified_grammar.s),
             final_ref, unified_grammar.s)))

----------------------------------------------------------------------------
(* The callers: the grammars they construct a parser from, the files on    *)
(* disk, and the characters their texts are made of.                       *)

\* tests/calculator_grammar.yaml in small: sums of numbers
calculator_grammar ==
    [start_rule |-> "expr",
     order |-> <<"expr", "number", "add_op">>,
     rules |->
        [expr |-> [ast |-> [structure |-> [str |-> "left_associative_op"]],
                   sequence |-> <<[rule |-> "number"],
                                  [zero_or_more |->
                                      [sequence |-> <<[rule |-> "add_op"], [rule |-> "number"]>>]]>>],
         number |-> [ast |-> [leaf |-> TRUE, type |-> "number"], regex |-> "[0-9]+"],
         add_op |-> [ast |-> [leaf |-> TRUE], literal |-> "+"]]]

\* the same sums with the operands and the operator defined inline
inline_calculator_grammar ==
    [start_rule |-> "expr",
     order |-> <<"expr">>,
     rules |->
        [expr |-> [ast |-> [structure |-> [str |-> "left_associative_op"]],
                   sequence |-> <<[regex |-> "[0-9]+", ast |-> [leaf |-> TRUE, type |-> "number"]],
                                  [zero_or_more |->
                                      [sequence |-> <<[literal |-> "+", ast |-> [tag |-> "add_op", leaf |-> TRUE]],
                                                      [regex |-> "[0-9]+",
                                                       ast |-> [leaf |-> TRUE, type |-> "number"]]>>]]>>]]]

\* a number that may have a decimal point
decimal_grammar ==
    [start_rule |-> "number",
     order |-> <<"number">>,
     rules |-> [number |-> [ast |-> [leaf |-> TRUE, type |-> "number"], regex |-> "[0-9.]+"]]]

\* tests/advanced_grammar.yaml in small: CLONE <path> [TO <path>] as C p [T p]
clone_grammar ==
    [start_rule |-> "clone",
     order |-> <<"clone", "kw_clone", "path", "to_clause", "kw_to">>,
     rules |->
        [clone |-> [ast |-> [structure |->
                        [dict |-> [tag |-> "clone",
                                   map_children |-> [repo |-> [from_child |-> 0],
                                                     dest |-> [from_child |-> 2]]]]],
                    sequence |-> <<[rule |-> "kw_clone"], [rule |-> "path"],
                                   [optional |-> [rule |-> "to_clause"]]>>],
         kw_clone |-> [ast |-> [discard |-> TRUE], literal |-> "C"],
         path |-> [ast |-> [leaf |-> TRUE], regex |-> "p+"],
         to_clause |-> [ast |-> [promote |-> TRUE],
                        sequence |-> <<[rule |-> "kw_to"], [rule |-> "path"]>>],
         kw_to |-> [ast |-> [discard |-> TRUE], literal |-> "T"]]]

\* a mapping over a choice: the rule's only visited child is the list of the alternative
pair_grammar ==
    [start_rule |-> "pair",
     order |-> <<"pair", "key", "val">>,
     rules |->
        [pair |-> [ast |-> [structure |->
                       [dict |-> [map_children |-> [first |-> [from_child |-> 0],
                                                    second |-> [from_child |-> 1]]]]],
                   choice |-> <<[sequence |-> <<[rule |-> "key"], [optional |-> [rule |-> "val"]]>>],
                                [sequence |-> <<[rule |-> "val"], [rule |-> "val"]>>]>>],
         key |-> [ast |-> [leaf |-> TRUE], literal |-> "k"],
         val |-> [ast |-> [leaf |-> TRUE, type |-> "number"], regex |-> "[0-9]"]]]

\* leaves of every type, with other directives next to `leaf`
typed_leaf_grammar ==
    [start_rule |-> "value",
     order |-> <<"value", "flag", "nil", "shout">>,
     rules |->
        [value |-> [ast |-> [promote |-> TRUE],
                    choice |-> <<[rule |-> "shout"], [rule |-> "flag"], [rule |-> "nil"]>>],
         flag |-> [ast |-> [leaf |-> TRUE, type |-> "bool"],
                   choice |-> <<[literal |-> "true"], [literal |-> "no"]>>],
         nil |-> [ast |-> [leaf |-> TRUE, type |-> "null", promote |-> TRUE], literal |-> "nil"],
         shout |-> [ast |-> [leaf |-> TRUE, tag |-> "loud", promote |-> TRUE],
                    sequence |-> <<[rule |-> "flag"], [literal |-> "!"]>>]]]

\* a discarded rule, and another rule whose `tag` directive is the discarded rule's name
retagged_grammar ==
    [start_rule |-> "main",
     order |-> <<"main", "ws", "word">>,
     rules |->
        [main |-> [sequence |-> <<[rule |-> "ws"], [rule |-> "word"], [rule |-> "ws"]>>],
         ws |-> [ast |-> [discard |-> TRUE], regex |-> "-*"],
         word |-> [ast |-> [tag |-> "ws"], sequence |-> <<[literal |-> "a"], [rule |-> "ws"]>>]]]

\* rules that are a reference to another rule, with and without an ast block
reference_grammar ==
    [start_rule |-> "main",
     order |-> <<"main", "plain", "bare", "named", "tagged", "both", "word">>,
     rules |->
        [main |-> [choice |-> <<[rule |-> "plain"], [rule |-> "bare"], [rule |-> "named"],
                                [rule |-> "tagged"], [rule |-> "both"]>>],
         plain |-> [rule |-> "word"],
         bare |-> [rule |-> "word", ast |-> EmptyDict],
         named |-> [rule |-> "word", ast |-> [name |-> "w"]],
         tagged |-> [rule |-> "word", ast |-> [tag |-> "t"]],
         both |-> [rule |-> "word", ast |-> [name |-> "w", tag |-> "t"]],
         word |-> [ast |-> [leaf |-> TRUE], literal |-> "a"]]]

\* a part with an empty ast block, next to a part with none
empty_ast_part_grammar ==
    [start_rule |-> "main",
     order |-> <<"main">>,
     rules |->
        [main |-> [sequence |-> <<[literal |-> "a", ast |-> EmptyDict], [literal |-> "b"]>>]]]

\* a sequence with named parts after an optional part and around a discarded one, and
\* a sequence with none
named_parts_grammar ==
    [start_rule |-> "main",
     order |-> <<"main", "flag", "key", "sep", "vals", "val">>,
     rules |->
        [main |-> [sequence |-> <<[optional |-> [rule |-> "flag"]],
                                  [rule |-> "key", ast |-> [name |-> "k"]],
                                  [rule |-> "sep"],
                                  [optional |-> [rule |-> "vals"], ast |-> [name |-> "v"]]>>],
         flag |-> [ast |-> [leaf |-> TRUE], literal |-> "f"],
         key |-> [ast |-> [leaf |-> TRUE], literal |-> "k"],
         sep |-> [ast |-> [discard |-> TRUE], literal |-> "-"],
         vals |-> [sequence |-> <<[one_or_more |-> [rule |-> "val"]],
                                  [optional |-> [rule |-> "flag"]]>>],
         val |-> [ast |-> [leaf |-> TRUE], literal |-> "v"]]]

\* a named part with a directive of its own, which normalization hoists
hoisted_name_grammar ==
    [start_rule |-> "main",
     order |-> <<"main">>,
     rules |->
        [main |-> [sequence |-> <<[regex |-> "[0-9]", ast |-> [name |-> "x", leaf |-> TRUE]],
                                  [literal |-> "b", ast |-> [name |-> "y"]]>>]]]

\* a mapping of an optional part and of the part after it
map_optional_grammar ==
    [start_rule |-> "main",
     order |-> <<"main", "a", "b">>,
     rules |->
        [main |-> [ast |-> [structure |->
                       [dict |-> [map_children |-> [first |-> [from_child |-> 0],
                                                    second |-> [from_child |-> 1]]]]],
                   sequence |-> <<[optional |-> [rule |-> "a"]], [rule |-> "b"]>>],
         a |-> [ast |-> [leaf |-> TRUE], literal |-> "a"],
         b |-> [ast |-> [leaf |-> TRUE], literal |-> "b"]]]

\* token names of which two are a prefix and the rest of the third
prefix_token_grammar ==
    [start_rule |-> "main",
     order |-> <<"main", "whole">>,
     lexer |-> [tokens |-> <<[regex |-> "ab", token |-> "AB"],
                             [regex |-> "a", token |-> "A"],
                             [regex |-> "b", token |-> "B"]>>],
     rules |->
        [main |-> [choice |-> <<[rule |-> "whole"],
                                [sequence |-> <<[token |-> "A"], [token |-> "B"]>>]>>],
         whole |-> [sequence |-> <<[token |-> "AB"], [token |-> "A"]>>]]]

\* start_rule names no rule
undefined_start_grammar ==
    [start_rule |-> "nope",
     order |-> <<"main", "extra">>,
     rules |-> [main |-> [literal |-> "a"], extra |-> [literal |-> "b"]]]

\* no start_rule key
missing_start_grammar ==
    [order |-> <<"main">>, rules |-> [main |-> [literal |-> "a"]]]

\* no rules at all
empty_grammar ==
    [start_rule |-> "main", order |-> <<>>, rules |-> EmptyDict]

\* `foo` is referenced from nowhere
unreachable_grammar ==
    [start_rule |-> "main",
     order |-> <<"main", "foo">>,
     rules |-> [main |-> [literal |-> "a"], foo |-> [literal |-> "b"]]]

\* the only rule referenced from nowhere has an internal name
internal_unreachable_grammar ==
    [start_rule |-> "main",
     order |-> <<"main", "main__9">>,
     rules |-> [main |-> [literal |-> "a"], main__9 |-> [literal |-> "b"]]]

promote_structure_grammar ==
    [start_rule |-> "expr",
     order |-> <<"expr", "number">>,
     rules |->
        [expr |-> [ast |-> [promote |-> TRUE, structure |-> [str |-> "left_associative_op"]],
                   sequence |-> <<[rule |-> "number"], [zero_or_more |-> [rule |-> "number"]]>>],
         number |-> [ast |-> [leaf |-> TRUE], regex |-> "[0-9]"]]]

promote_discard_grammar ==
    [start_rule |-> "main",
     order |-> <<"main", "gap">>,
     rules |->
        [main |-> [sequence |-> <<[literal |-> "a"], [rule |-> "gap"]>>],
         gap |-> [ast |-> [promote |-> TRUE, discard |-> TRUE], literal |-> "-"]]]

\* a directive that is present but off is no conflict
promote_off_grammar ==
    [start_rule |-> "main",
     order |-> <<"main", "gap">>,
     rules |->
        [main |-> [sequence |-> <<[literal |-> "a"], [rule |-> "gap"]>>],
         gap |-> [ast |-> [promote |-> FALSE, discard |-> TRUE], literal |-> "-"]]]

\* a grammar file used as a subgrammar
num_lit_yaml ==
    [start_rule |-> "num",
     order |-> <<"num", "digit">>,
     rules |-> [num |-> [sequence |-> <<[rule |-> "digit"], [zero_or_more |-> [rule |-> "digit"]]>>],
                digit |-> [ast |-> [leaf |-> TRUE], regex |-> "[0-9]"]]]

\* a grammar file whose leaf rule holds a subgrammar directive
bad_leaf_yaml ==
    [start_rule |-> "item",
     order |-> <<"item">>,
     rules |-> [item |-> [ast |-> [leaf |-> TRUE],
                          sequence |-> <<[literal |-> "i"],
                                         [zero_or_more |-> [subgrammar |-> [file |-> "num-lit.yaml"]]]>>]]]

Files == ("num-lit.yaml" :> num_lit_yaml) @@ ("bad_leaf.yaml" :> bad_leaf_yaml)

subgrammar_grammar ==
    [start_rule |-> "main",
     order |-> <<"main">>,
     rules |->
        [main |-> [sequence |-> <<[literal |-> "x"],
                                  [subgrammar |-> [file |-> "num-lit.yaml"],
                                   ast |-> [name |-> "n"]]>>]]]

leaf_subgrammar_grammar ==
    [start_rule |-> "main",
     order |-> <<"main">>,
     rules |->
        [main |-> [ast |-> [leaf |-> TRUE],
                   sequence |-> <<[literal |-> "x"],
                                  [optional |-> [subgrammar |-> [file |-> "num-lit.yaml"]]]>>]]]

nested_leaf_subgrammar_grammar ==
    [start_rule |-> "main",
     order |-> <<"main">>,
     rules |->
        [main |-> [sequence |-> <<[literal |-> "x"],
                                  [subgrammar |-> [file |-> "bad_leaf.yaml"]]>>]]]

missing_file_grammar ==
    [start_rule |-> "main",
     order |-> <<"main">>,
     rules |->
        [main |-> [sequence |-> <<[literal |-> "x"],
                                  [subgrammar |-> [file |-> "absent.yaml"]]>>]]]

\* directives as a whole body, as an item of a list and under a shape key, with and
\* without a placeholder, next to keys of their own; a file that is not there, a leaf
\* rule with a directive, a rule left empty and a rule that nothing references
placeholder_grammar ==
    [start_rule |-> "main",
     order |-> <<"main", "num", "gap", "spare">>,
     rules |->
        [main |-> [sequence |-> <<[literal |-> "x"],
                                  [rule |-> "num"],
                                  [rule |-> "gap"],
                                  [subgrammar |-> [file |-> "absent.yaml"],
                                   ast |-> [name |-> "n"]],
                                  [optional |->
                                      [subgrammar |-> [file |-> "num-lit.yaml",
                                                       placeholder |-> [literal |-> "i"]]]]>>],
         num |-> [ast |-> [leaf |-> TRUE],
                  subgrammar |-> [file |-> "num-lit.yaml",
                                  placeholder |-> [regex |-> "[0-9]"]]],
         gap |-> [subgrammar |-> [file |-> "absent.yaml"]],
         spare |-> [literal |-> "b"]]]

\* tests/test_parser.py, test_choice_of_unnamed_sequences_bug
choice_of_sequences_grammar ==
    [start_rule |-> "main",
     order |-> <<"main">>,
     rules |-> [main |-> [choice |-> <<[sequence |-> <<[literal |-> "a"]>>],
                                       [sequence |-> <<[literal |-> "b"]>>]>>]]]

\* tests/test_parser.py, test_choice_of_unnamed_sequences_with_empty_alternative
choice_with_empty_alternative_grammar ==
    [start_rule |-> "main",
     order |-> <<"main">>,
     rules |-> [main |-> [choice |-> <<[sequence |-> <<[literal |-> "a"]>>],
                                       [sequence |-> <<>>]>>]]]

\* tests/test_parser.py, test_empty_choice_raises_error
empty_choice_grammar ==
    [start_rule |-> "main",
     order |-> <<"main">>,
     rules |-> [main |-> [choice |-> <<>>]]]

\* an empty choice inside a rule that is not always empty
nested_empty_choice_grammar ==
    [start_rule |-> "main",
     order |-> <<"main">>,
     rules |-> [main |-> [sequence |-> <<[literal |-> "a"],
                                         [optional |-> [choice |-> <<>>]],
                                         [literal |-> "b"], [literal |-> "a"]>>]]]

\* a grammar with a lexer: sums of NUMBER tokens
token_grammar ==
    [start_rule |-> "sum",
     order |-> <<"sum">>,
     lexer |-> [tokens |-> <<[regex |-> "[0-9]+", token |-> "NUMBER", ast |-> [type |-> "number"]],
                             [regex |-> "[ ]+", action |-> "skip"],
                             [regex |-> "[+]", token |-> "PLUS"]>>],
     rules |->
        [sum |-> [sequence |-> <<[token |-> "NUMBER"],
                                 [zero_or_more |->
                                     [sequence |-> <<[token |-> "PLUS"], [token |-> "NUMBER"]>>]]>>]]]

Scenarios ==
    <<[class |-> "Parser", grammar_dict |-> calculator_grammar, alphabet |-> {"1", "+1", "+"}],
      [class |-> "Parser", grammar_dict |-> inline_calculator_grammar, alphabet |-> {"1", "+1", "+"}],
      [class |-> "Parser", grammar_dict |-> decimal_grammar, alphabet |-> {"1", "0", "."}],
      [class |-> "Parser", grammar_dict |-> clone_grammar, alphabet |-> {"C", "Tp", "p", "T"}],
      [class |-> "Parser", grammar_dict |-> pair_grammar, alphabet |-> {"k", "1"}],
      [class |-> "Parser", grammar_dict |-> typed_leaf_grammar, alphabet |-> {"true", "no", "nil", "!"}],
      [class |-> "Parser", grammar_dict |-> retagged_grammar, alphabet |-> {"a", "-"}],
      [class |-> "Parser", grammar_dict |-> undefined_start_grammar, alphabet |-> {"a", "b"}],
      [class |-> "Parser", grammar_dict |-> missing_start_grammar, alphabet |-> {"a"}],
      [class |-> "Parser", grammar_dict |-> empty_grammar, alphabet |-> {"a"}],
      [class |-> "Parser", grammar_dict |-> unreachable_grammar, alphabet |-> {"a"}],
      [class |-> "Parser", grammar_dict |-> internal_unreachable_grammar, alphabet |-> {"a", "b"}],
      [class |-> "Parser", grammar_dict |-> promote_structure_grammar, alphabet |-> {"1"}],
      [class |-> "Parser", grammar_dict |-> promote_discard_grammar, alphabet |-> {"a", "-"}],
      [class |-> "Parser", grammar_dict |-> promote_off_grammar, alphabet |-> {"a", "-"}],
      [class |-> "Parser", grammar_dict |-> subgrammar_grammar, alphabet |-> {"x", "1"}],
      [class |-> "Parser", grammar_dict |-> leaf_subgrammar_grammar, alphabet |-> {"x", "1"}],
      [class |-> "Parser", grammar_dict |-> nested_leaf_subgrammar_grammar, alphabet |-> {"x", "i"}],
      [class |-> "Parser", grammar_dict |-> missing_file_grammar, alphabet |-> {"x"}],
      [class |-> "Parser", grammar_dict |-> choice_of_sequences_grammar, alphabet |-> {"a", "b"}],
      [class |-> "Parser", grammar_dict |-> choice_with_empty_alternative_grammar, alphabet |-> {"a", "b"}],
      [class |-> "Parser", grammar_dict |-> empty_choice_grammar, alphabet |-> {"a"}],
      [class |-> "Parser", grammar_dict |-> nested_empty_choice_grammar, alphabet |-> {"a", "b"}],
      [class |-> "Parser", grammar_dict |-> token_grammar, alphabet |-> {"1", "+", " ", "?"}],
      [class |-> "PlaceholderParser", grammar_dict |-> leaf_subgrammar_grammar, alphabet |-> {"x", "1"}],
      [class |-> "PlaceholderParser", grammar_dict |-> promote_structure_grammar, alphabet |-> {"1"}],
      [class |-> "PlaceholderParser", grammar_dict |-> placeholder_grammar, alphabet |-> {"x", "1", "i"}],
      [class |-> "PlaceholderParser", grammar_dict |-> missing_file_grammar, alphabet |-> {"x"}],
      [class |-> "Parser", grammar_dict |-> placeholder_grammar, alphabet |-> {"x", "1", "i"}],
      [class |-> "Parser", grammar_dict |-> reference_grammar, alphabet |-> {"a"}],
      [class |-> "Parser", grammar_dict |-> empty_ast_part_grammar, alphabet |-> {"a", "b"}],
      [class |-> "Parser", grammar_dict |-> named_parts_grammar, alphabet |-> {"fk-", "k-", "v"}],
      [class |-> "Parser", grammar_dict |-> hoisted_name_grammar, alphabet |-> {"1", "b"}],
      [class |-> "Parser", grammar_dict |-> map_optional_grammar, alphabet |-> {"a", "b"}],
      [class |-> "Parser", grammar_dict |-> prefix_token_grammar, alphabet |-> {"a", "b"}]>>

MaxTextLen == 3

\* the texts of at most n pieces of an alphabet
RECURSIVE Texts(_, _)
Texts(alphabet, n) ==
    IF n = 0 THEN {""}
    ELSE LET shorter == Texts(alphabet, n - 1) IN
         shorter \cup {t \o c : t \in shorter, c \in alphabet}

\* the start_rule arguments: none (""), a rule of the grammar, a name that is no rule
StartRules(config) == {"", "undefined"} \cup DOMAIN config.grammar_dict.rules

\* what a caller may pass to parse
ParseInputs(chosen, parser) ==
    IF parser.state # "built" THEN {}
    ELSE Texts(Scenarios[chosen].alphabet, MaxTextLen) \X StartRules(parser.config)

----------------------------------------------------------------------------
(* The state machine: a caller constructs a parser and calls parse.  parse *)
(* only reads the parser's configuration, so one call stands for any.      *)

NotBuilt == [state |-> "none"]
NoCall == [state |-> "none"]
NoTokenize == [state |-> "none"]

\* no always-empty check yet
NoCheck == [state |-> "none"]

\* no LineColumnFinder object yet
NoFinder == [state |-> "none"]

\* no Transpiler object yet
NoTranspiler == [state |-> "none"]

Init ==
    /\ scenario = 0
    /\ input_grammar = EmptyDict
    /\ parser_obj = NotBuilt
    /\ last_call = NoCall
    /\ last_result = [status |-> "none"]
    /\ last_visits = <<>>
    /\ lexer = NoTokenize
    /\ transpiler = NoTranspiler
    /\ finder = NoFinder
    /\ empty_check = NoCheck

\* Parser(grammar_dict) or PlaceholderParser(grammar_dict)
Construct(i) ==
    /\ scenario = 0
    /\ scenario' = i
    /\ input_grammar' =
          bind(Scenarios[i], LAMBDA caller :
          IF caller.class = "Parser"
          THEN grammar_dict_after_Parser(Files, caller.grammar_dict)
          ELSE grammar_dict_after_PlaceholderParser(caller.grammar_dict))
    /\ parser_obj' =
          bind(Scenarios[i], LAMBDA caller :
          bind(IF caller.class = "Parser"
               THEN Parser(Files, caller.grammar_dict)
               ELSE PlaceholderParser(caller.grammar_dict), LAMBDA built :
          IF built.ok
          THEN [state |-> "built", class |-> caller.class, config |-> built]
          ELSE [state |-> "failed", class |-> caller.class,
                exc |-> built.exc, msg |-> built.msg]))
    /\ UNCHANGED <<last_call, last_result, last_visits, lexer, transpiler, finder,
                   empty_check>>

\* how many calls the caller has made so far
calls_so_far == IF last_call = NoCall THEN 0 ELSE last_call.nth

\* a parse that keeps its start_rule argument as the configuration's
ParseKeepingStartRule(text, start_rule) ==
    /\ parser_obj.state = "built"
    /\ last_call' = [state |-> "called", text |-> text, start_rule |-> start_rule,
                     nth |-> calls_so_far + 1, after |-> last_result.status]
    /\ \E r \in {_parse_internal(text, parser_obj.config, start_rule)} :
           /\ last_result' = r.result
           /\ last_visits' = r.visits
    /\ parser_obj' = IF start_rule = "" THEN parser_obj
                     ELSE [parser_obj EXCEPT !.config.start_rule = start_rule]
    /\ UNCHANGED <<scenario, input_grammar, lexer, transpiler, finder, empty_check>>

\* parser.parse(text, start_rule)
Parse(text, start_rule) ==
    /\ parser_obj.state = "built"
    /\ last_call' = [state |-> "called", text |-> text, start_rule |-> start_rule,
                     nth |-> calls_so_far + 1, after |-> last_result.status]
    /\ \E r \in {_parse_internal(text, parser_obj.config, start_rule)} :
           /\ last_result' = r.result
           /\ last_visits' = r.visits
    /\ UNCHANGED <<scenario, input_grammar, parser_obj, lexer, transpiler, finder,
                   empty_check>>

\* the first call of a parser
FirstInputs == IF last_call = NoCall THEN ParseInputs(scenario, parser_obj) ELSE {}

Next ==
    \/ \E i \in 1..Len(Scenarios) : Construct(i)
    \/ \E input \in FirstInputs : Parse(input[1], input[2])

Spec == Init /\ [][Next]_vars

----------------------------------------------------------------------------
(* A caller that calls parse again and again on one parser: some of the    *)
(* scenarios, each with a few texts.                                       *)

\* the calculator, the typed leaves, the choice with an empty alternative and the
\* token grammar, each with the texts of its caller
RepeatedCallers ==
    <<[scenario |-> 1, texts |-> {"", "1", "1+1", "+1"}],
      [scenario |-> 6, texts |-> {"", "true", "nil", "!"}],
      [scenario |-> 21, texts |-> {"", "a", "b", "ab"}],
      [scenario |-> 24, texts |-> {"", "1", "1 + 1", "1 ?", "+"}]>>

MaxParseCalls == 2

\* what the caller may pass to parse, each time
RepeatInputs(chosen, parser) ==
    IF parser.state # "built" \/ calls_so_far >= MaxParseCalls THEN {}
    ELSE UNION {RepeatedCallers[i].texts \X StartRules(parser.config) :
                    i \in {j \in 1..Len(RepeatedCallers) : RepeatedCallers[j].scenario = chosen}}

RepeatNext ==
    \/ \E i \in 1..Len(RepeatedCallers) : Construct(RepeatedCallers[i].scenario)
    \/ \E input \in RepeatInputs(scenario, parser_obj) : Parse(input[1], input[2])

RepeatSpec == Init /\ [][RepeatNext]_vars

----------------------------------------------------------------------------
(* StatefulLexer.tokenize, one iteration of its loop at a time.            *)

\* an indentation-aware lexer: names, newlines with the next line's indentation, blanks
indent_lexer ==
    [tokens |-> <<[regex |-> "[a-z]+", token |-> "NAME"],
                  [regex |-> "\n[ ]*", action |-> "handle_indent"],
                  [regex |-> "[ ]+", action |-> "skip"]>>]

\* a keyword declared before the names it is one of, and a skipped run of blanks
keyword_lexer ==
    [tokens |-> <<[regex |-> "if", token |-> "IF"],
                  [regex |-> "[a-z]+", token |-> "NAME"],
                  [regex |-> "[ ]+", action |-> "skip"],
                  [regex |-> "[ ]", token |-> "BLANK"]>>]

\* the same keyword declared after the names
name_first_lexer ==
    [tokens |-> <<[regex |-> "[a-z]+", token |-> "NAME"],
                  [regex |-> "if", token |-> "IF"],
                  [regex |-> "[ ]", token |-> "BLANK"],
                  [regex |-> "[ ]+", action |-> "skip"]>>]

\* names that may be empty
empty_name_lexer ==
    [tokens |-> <<[regex |-> "[a-z]*", token |-> "NAME"],
                  [regex |-> "[ ]+", action |-> "skip"]>>]

Lexers ==
    <<[lexer_config |-> indent_lexer, alphabet |-> {"a", "\n", "\n  b", "\n  c", "\n b"}],
      [lexer_config |-> keyword_lexer, alphabet |-> {"if", "a", " ", "?"}],
      [lexer_config |-> name_first_lexer, alphabet |-> {"if", "a", " ", "?"}],
      [lexer_config |-> empty_name_lexer, alphabet |-> {"a", " ", "?"}]>>

MaxLexLen == 4

\* StatefulLexer(lexer_config).tokenize(text), up to its loop
Tokenize(i, text) ==
    /\ lexer = NoTokenize
    /\ lexer' = [state |-> "scanning",
                 token_specs |-> get(Lexers[i].lexer_config, "tokens", <<>>),
                 text |-> expandtabs(text, 8, 0)] @@ start_of_text
    /\ UNCHANGED <<scenario, input_grammar, parser_obj, last_call, last_result, last_visits,
                   transpiler, finder,
                   empty_check>>

\* one iteration of the loop; a loop that does not end is followed as far as
\* twice as many tokens as the text has characters, which no loop that ends emits
Scan ==
    /\ lexer.state = "scanning"
    /\ lexer.pos < Len(lexer.text)
    /\ Len(lexer.tokens) <= 2 * Len(lexer.text)
    /\ \E after \in {scan(lexer.token_specs, lexer.text, lexer)} :
           lexer' = IF after.ok
                    THEN [lexer EXCEPT !.pos = after.pos,
                                       !.tokens = after.tokens,
                                       !.indent_stack = after.indent_stack,
                                       !.line_num = after.line_num,
                                       !.line_start = after.line_start]
                    ELSE [state |-> "raised",
                          token_specs |-> lexer.token_specs, text |-> lexer.text,
                          exc |-> after.exc, msg |-> after.msg]
    /\ UNCHANGED <<scenario, input_grammar, parser_obj, last_call, last_result, last_visits,
                   transpiler, finder,
                   empty_check>>

\* the end of the loop: the final dedents and the return
Return ==
    /\ lexer.state = "scanning"
    /\ ~(lexer.pos < Len(lexer.text))
    /\ lexer' = [state |-> "returned",
                 token_specs |-> lexer.token_specs, text |-> lexer.text,
                 tokens |-> final_tokens(lexer.token_specs, lexer)]
    /\ UNCHANGED <<scenario, input_grammar, parser_obj, last_call, last_result, last_visits,
                   transpiler, finder,
                   empty_check>>

LexNext ==
    \/ \E i \in 1..Len(Lexers) : \E text \in Texts(Lexers[i].alphabet, MaxLexLen) :
           Tokenize(i, text)
    \/ Scan
    \/ Return

LexSpec == Init /\ [][LexNext]_vars

----------------------------------------------------------------------------
(* The callers of the position finder: one LineColumnFinder, and find      *)
(* calls on it.                                                            *)

MaxFindLen == 4

\* the offsets asked for: some below 0 and some beyond the longest text
Offsets == (0 - 2)..(MaxFindLen + 2)

\* LineColumnFinder(text)
NewFinder(text) ==
    /\ finder = NoFinder
    /\ finder' = [state |-> "made", text |-> text, line_starts |-> line_starts(text)]
    /\ UNCHANGED <<scenario, input_grammar, parser_obj, last_call, last_result, last_visits,
                   lexer, transpiler, empty_check>>

\* finder.find(offset)
Find(offset) ==
    /\ finder.state \in {"made", "found"}
    /\ \E found \in {find(finder.text, offset)} :
           finder' = [state |-> "found", text |-> finder.text,
                      line_starts |-> finder.line_starts, offset |-> offset,
                      line |-> found.line, col |-> found.col]
    /\ UNCHANGED <<scenario, input_grammar, parser_obj, last_call, last_result, last_visits,
                   lexer, transpiler, empty_check>>

FindNext ==
    \/ \E text \in Texts({"a", "\n"}, MaxFindLen) : NewFinder(text)
    \/ \E offset \in Offsets : Find(offset)

FindSpec == Init /\ [][FindNext]_vars

----------------------------------------------------------------------------
(* The callers of the transpiler: one Transpiler object, and transpile     *)
(* calls on it one after the other.                                        *)

\* a scope's table of names is a dict of the configuration
scoped_transpiler ==
    [rules |->
        [prog |-> [template |-> "{children}"],
         scope |-> [value |-> "S",
                    state_set |-> <<[key |-> "vars", value |-> Dict(EmptyDict)]>>],
         use |-> [cases |-> <<[if |-> [path |-> "state.vars.x"], then |-> "known"],
                              [default |-> "new"]>>],
         decl |-> [value |-> "D", state_set |-> <<[key |-> "vars.x", value |-> PyStr("yes")]>>],
         block |-> [indent |-> TRUE, join_children_with |-> "\n", template |-> "{children}"],
         bad |-> [template |-> "{missing}"]]]

\* the same with a string for the table: no dict of the configuration is shared
flat_transpiler ==
    [transpiler |-> [indent |-> "  "],
     rules |->
        [prog |-> [join_children_with |-> "\n", template |-> "{children}"],
         scope |-> [value |-> "S", state_set |-> <<[key |-> "seen", value |-> PyStr("")]>>],
         use |-> [cases |-> <<[if |-> [path |-> "state.vars.x"], then |-> "known"],
                              [default |-> "new"]>>],
         decl |-> [value |-> "D", state_set |-> <<[key |-> "vars.x", value |-> PyStr("yes")]>>],
         block |-> [indent |-> TRUE, join_children_with |-> "\n", template |-> "{children}"],
         bad |-> [template |-> "{missing}"]]]

\* one rule for each source of a template
cases_transpiler ==
    [rules |->
        [n |-> [cases |-> <<[if |-> [path |-> "node.value", equals |-> PyStr("1")],
                             then |-> "one"]>>,
                template |-> "tmpl"],
         m |-> [cases |-> <<[if |-> [path |-> "node.value", equals |-> PyInt(1),
                                     negate |-> TRUE],
                             then |-> "other"],
                            [default |-> "dflt"]>>,
                template |-> "tmpl"],
         c |-> [cases |-> <<[if |-> [path |-> "node.value"], then |-> "some"]>>,
                use |-> "text"],
         t |-> [template |-> "<{children}>", use |-> "value"],
         u |-> [use |-> "value", value |-> "lit"],
         x |-> [use |-> "text", value |-> "lit"],
         v |-> [value |-> "lit"]]]

\* a rule that asks for what it sets, below a rule that asks for what its children set
marking_transpiler ==
    [rules |->
        [prog |-> [template |-> "{children}"],
         mark |-> [cases |-> <<[if |-> [path |-> "state.seen.x.y"], then |-> "again"],
                               [default |-> "first"]>>,
                   state_set |-> <<[key |-> "seen.x.y", value |-> PyStr("yes")]>>],
         look |-> [cases |-> <<[if |-> [path |-> "state.seen.x.y"], then |-> "known"],
                               [default |-> "new"]>>],
         outer |-> [cases |-> <<[if |-> [path |-> "state.seen.x"], then |-> "had({children})"],
                                [default |-> "none({children})"]>>,
                    state_set |-> <<[key |-> "seen.x.z", value |-> PyStr("{children}")]>>]]]

\* a node with a list of children
Branch(tag, children) == Dict([tag |-> tag, text |-> "", children |-> List(children)])

\* the sequences of at most n of the nodes
RECURSIVE NodeSeqs(_, _)
NodeSeqs(nodes, n) ==
    IF n = 0 THEN {<<>>}
    ELSE {<<>>} \cup {<<node>> \o rest : node \in nodes, rest \in NodeSeqs(nodes, n - 1)}

MaxChildren == 3

\* programs of scopes, uses, declarations and blocks, one block failing part-way
ScopedNodes ==
    {Branch("prog", children) :
        children \in NodeSeqs({Dict([tag |-> "scope", text |-> "s"]),
                               Dict([tag |-> "use", text |-> "u"]),
                               Dict([tag |-> "decl", text |-> "d"]),
                               Branch("block", <<Dict([tag |-> "use", text |-> "u"]),
                                                 Dict([tag |-> "bad", text |-> "b"])>>)},
                              MaxChildren)}
    \cup {Branch("block", <<Dict([tag |-> "use", text |-> "u"]),
                            Branch("block", <<Dict([tag |-> "use", text |-> "u"]),
                                              Dict([tag |-> "decl", text |-> "d"])>>)>>),
          Branch("prog", <<Dict([tag |-> "scope", text |-> "s"]),
                           Dict([tag |-> "decl", text |-> "d"]),
                           Dict([tag |-> "scope", text |-> "s"]),
                           Dict([tag |-> "use", text |-> "u"])>>),
          List(<<>>)}

\* programs of marks and looks, some below an outer node
MarkingNodes ==
    {Branch("prog", children) :
        children \in NodeSeqs({Dict([tag |-> "mark", text |-> "m"]),
                               Dict([tag |-> "look", text |-> "l"]),
                               Branch("outer", <<Dict([tag |-> "mark", text |-> "m"])>>)},
                              MaxChildren)}
    \cup {Branch("outer", <<>>),
          Branch("outer", <<Dict([tag |-> "look", text |-> "l"]),
                            Dict([tag |-> "mark", text |-> "m"])>>)}

\* leaves of each rule, and of no rule, with and without a value and a text
CaseNodes ==
    {Dict([tag |-> tag]) : tag \in {"n", "x", "v", "w"}}
    \cup {Dict([tag |-> tag, text |-> text]) :
            tag \in {"n", "m", "c", "t", "u", "x", "v", "w"}, text \in {"1", "2"}}
    \cup {Dict([tag |-> tag, text |-> ToString(value), value |-> PyInt(value)]) :
            tag \in {"n", "m", "c", "t", "u", "x", "v", "w"}, value \in 0..2}
    \cup {Branch("t", <<Dict([tag |-> tag, text |-> "2", value |-> PyInt(2)]),
                        Dict([tag |-> tag, text |-> "1", value |-> PyInt(1)])>>) :
            tag \in {"n", "m", "c"}}

Transpilers ==
    <<[config |-> scoped_transpiler, nodes |-> ScopedNodes],
      [config |-> flat_transpiler, nodes |-> ScopedNodes],
      [config |-> cases_transpiler, nodes |-> CaseNodes],
      [config |-> marking_transpiler, nodes |-> MarkingNodes]>>

MaxCalls == 3

\* what a call gave its caller
Outcome(result) ==
    IF result.ok THEN [k |-> "return", s |-> result.s] ELSE [k |-> "raise", exc |-> result.exc]

\* Transpiler(transpile_grammar)
NewTranspiler(i) ==
    /\ transpiler = NoTranspiler
    /\ transpiler' = [state |-> "made", config |-> i, obj |-> Transpiler(Transpilers[i].config),
                      calls |-> 0, node |-> None, result |-> [k |-> "none"]]
    /\ UNCHANGED <<scenario, input_grammar, parser_obj, last_call, last_result, last_visits,
                   lexer, finder,
                   empty_check>>

\* transpiler.transpile(node)
Transpile(i, node) ==
    /\ transpiler.state = "made"
    /\ transpiler.config = i
    /\ transpiler.calls < MaxCalls
    /\ \E result \in {transpile(transpiler.obj, node)} :
           transpiler' = [transpiler EXCEPT !.obj = result.obj, !.calls = @ + 1,
                                            !.node = node, !.result = Outcome(result)]
    /\ UNCHANGED <<scenario, input_grammar, parser_obj, last_call, last_result, last_visits,
                   lexer, finder,
                   empty_check>>

TranspileNext ==
    \/ \E i \in 1..Len(Transpilers) : NewTranspiler(i)
    \/ \E i \in 1..Len(Transpilers) : \E node \in Transpilers[i].nodes : Transpile(i, node)

TranspileSpec == Init /\ [][TranspileNext]_vars

----------------------------------------------------------------------------
(* _check_for_always_empty_rules, one rule of its loop at a time, on the   *)
(* grammars of two rules a and b whose bodies are drawn from Bodies.       *)

check_lexer ==
    [tokens |-> <<[regex |-> "[0-9]+", token |-> "NUM"],
                  [regex |-> "[ ]+", token |-> "WS", action |-> "skip"],
                  [regex |-> ";", token |-> "SEMI", ast |-> [discard |-> TRUE]]>>]

\* the parts of the sequences and choices drawn
Parts ==
    {[literal |-> "x"],
     [literal |-> "x", ast |-> [discard |-> TRUE]],
     [rule |-> "a"],
     [rule |-> "b"]}

MaxParts == 2

\* the bodies drawn, with sequences and choices of at most n parts
Bodies(n) ==
    Parts
    \cup {[sequence |-> parts] : parts \in NodeSeqs(Parts, n)}
    \cup {[choice |-> parts] : parts \in NodeSeqs(Parts, n)}
    \cup {[optional |-> part] : part \in Parts}
    \cup {[sequence |-> <<[rule |-> "b", ast |-> [name |-> "k"]]>>],
          [rule |-> "b", ast |-> [leaf |-> TRUE]],
          [rule |-> "b", ast |-> [structure |-> [str |-> "left_associative_op"]]],
          [rule |-> "undefined"],
          [token |-> "NUM"],
          [token |-> "WS"],
          [token |-> "SEMI"],
          [regex |-> "x*"],
          [positive_lookahead |-> [literal |-> "x"]],
          [negative_lookahead |-> [literal |-> "x"]],
          [sequence |-> <<[positive_lookahead |-> [literal |-> "x"]]>>],
          [sequence |-> <<[literal |-> "x", ast |-> [discard |-> TRUE]],
                          [negative_lookahead |-> [literal |-> "x"]]>>],
          [zero_or_more |-> [rule |-> "b"]],
          [one_or_more |-> [sequence |-> <<[rule |-> "a"]>>]]}

\* the grammars checked: a drawn from the bodies of at most MaxParts parts, b from
\* those of at most one, one of them first
CheckedGrammars ==
    {[order |-> order, lexer |-> check_lexer, rules |-> [a |-> a, b |-> b]] :
        order \in {<<"a", "b">>, <<"b", "a">>}, a \in Bodies(MaxParts), b \in Bodies(1)}

\* what a caller may pass to the check
GrammarsToCheck == IF empty_check = NoCheck THEN CheckedGrammars ELSE {}

\* lines 872-876: the locals before the loop
StartCheck(grammar_dict) ==
    /\ empty_check = NoCheck
    /\ empty_check' = [state |-> "checking", grammar_dict |-> grammar_dict, next |-> 1,
                memo |-> EmptyDict, implicitly_empty_rules |-> <<>>, examined |-> <<>>]
    /\ UNCHANGED <<scenario, input_grammar, parser_obj, last_call, last_result, last_visits,
                   lexer, transpiler, finder>>

\* lines 877-888: one rule of the loop
CheckRule ==
    /\ empty_check.state = "checking"
    /\ empty_check.next <= Len(empty_check.grammar_dict.order)
    /\ \E rule_name \in {empty_check.grammar_dict.order[empty_check.next]} :
       \E rule_def \in {empty_check.grammar_dict.rules[rule_name]} :
           IF get(get(rule_def, "ast", EmptyDict), "discard", FALSE)
              \/ "positive_lookahead" \in DOMAIN rule_def
              \/ "negative_lookahead" \in DOMAIN rule_def
           THEN empty_check' = [empty_check EXCEPT !.next = @ + 1]
           ELSE \E r \in {_is_rule_always_empty(rule_name, empty_check.memo, empty_check.grammar_dict)} :
                    empty_check' = [empty_check EXCEPT
                                !.next = @ + 1,
                                !.memo = r.memo,
                                !.examined = @ \o r.examined,
                                !.implicitly_empty_rules =
                                    IF r.v THEN Append(@, rule_name) ELSE @]
    /\ UNCHANGED <<scenario, input_grammar, parser_obj, last_call, last_result, last_visits,
                   lexer, transpiler, finder>>

\* lines 890-895: the check raises when it found a rule, and returns otherwise
EndCheck ==
    /\ empty_check.state = "checking"
    /\ empty_check.next > Len(empty_check.grammar_dict.order)
    /\ empty_check' = [empty_check EXCEPT !.state = IF Len(empty_check.implicitly_empty_rules) > 0
                                      THEN "raised" ELSE "returned"]
    /\ UNCHANGED <<scenario, input_grammar, parser_obj, last_call, last_result, last_visits,
                   lexer, transpiler, finder>>

CheckNext ==
    \/ \E grammar_dict \in GrammarsToCheck : StartCheck(grammar_dict)
    \/ CheckRule
    \/ EndCheck

CheckSpec == Init /\ [][CheckNext]_vars


----------------------------------------------------------------------------
(* The claims *)

ParserBuilt == parser_obj.state = "built" /\ parser_obj.class = "Parser"
ParserFailed == parser_obj.state = "failed" /\ parser_obj.class = "Parser"
ParserCalled == ParserBuilt /\ last_call.state = "called"
ParseSucceeded == ParserCalled /\ last_result.status = "success"

\* the tags of the nodes of an AST: the root, the nodes in list children and in named
\* children, and the op, left and right of binary_op nodes
RECURSIVE TagsIn(_)
TagsIn(value) ==
    IF is_list(value) THEN UNION {TagsIn(value.items[i]) : i \in 1..Len(value.items)}
    ELSE IF is_dict(value)
    THEN IF "tag" \in DOMAIN value.d
         THEN {value.d.tag}
                  \cup UNION {TagsIn(value.d[f]) :
                                 f \in DOMAIN value.d \cap {"children", "op", "left", "right"}}
         ELSE UNION {TagsIn(value.d[name]) : name \in DOMAIN value.d}
    ELSE {}

\* C1: whatever the text and the start_rule argument, a parse call on a constructed
\* Parser returns {status: "success", ast} or {status: "error", message}; no failure at
\* parse time is raised to the caller.
C1_ParseReturnsResult ==
    ParserCalled =>
        \/ last_result.status = "success" /\ "ast" \in DOMAIN last_result
        \/ last_result.status = "error" /\ "message" \in DOMAIN last_result

\* C2: after a successful parse no node of the returned AST (root, list children, named
\* children, op/left/right of binary_op) has a tag containing `__`.
C2_NoInternalTags ==
    ParseSucceeded => \A tag \in TagsIn(last_result.ast) : ~contains(tag, SEP)

\* C3: a constructed Parser has a start_rule that names one of its rules; a grammar with
\* no start_rule key, or whose start_rule names no rule, is rejected at construction.
C3_StartRuleDefined ==
    /\ ParserBuilt =>
           parser_obj.config.start_rule \in DOMAIN parser_obj.config.grammar_dict.rules
    /\ (/\ scenario # 0
        /\ Scenarios[scenario].class = "Parser"
        /\ \/ "start_rule" \notin DOMAIN input_grammar
           \/ input_grammar.start_rule \notin DOMAIN input_grammar.rules)
       => ParserFailed /\ parser_obj.exc = "ValueError"

\* the rules of the constructed parser's grammar and their `ast` blocks
RuleDefs == parser_obj.config.grammar_dict.rules
AstOf(rule_name) == get(RuleDefs[rule_name], "ast", EmptyDict)

\* the visits of the last parse call to nodes of grammar rules (a node named after a token
\* type stands for a token, not for a rule)
RuleVisits ==
    {i \in 1..Len(last_visits) :
        /\ last_visits[i].rule_name \in DOMAIN RuleDefs
        /\ parser_obj.config.is_token_grammar =>
               \A j \in 1..Len(token_types(parser_obj.config.grammar_dict)) :
                   token_types(parser_obj.config.grammar_dict)[j] # last_visits[i].rule_name}

\* the rule is visited as a leaf: `leaf: true`, a bare literal or regex, or a one-item
\* sequence of one
VisitedAsLeaf(rule_name) ==
    \/ get(AstOf(rule_name), "leaf", FALSE)
    \/ /\ ~parser_obj.config.is_token_grammar
       /\ DOMAIN RuleDefs[rule_name] \cap {"literal", "regex"} # {}
    \/ is_wrapped_leaf(RuleDefs[rule_name])

\* the visitor reaches the rule's `structure`: the directives it applies first (discard,
\* leaf, promote) are absent
StructureApplies(rule_name) ==
    /\ "structure" \in DOMAIN AstOf(rule_name)
    /\ ~get(AstOf(rule_name), "discard", FALSE)
    /\ ~VisitedAsLeaf(rule_name)
    /\ ~get(AstOf(rule_name), "promote", FALSE)

LeftAssociativeVisits ==
    {i \in RuleVisits :
        /\ StructureApplies(last_visits[i].rule_name)
        /\ AstOf(last_visits[i].rule_name).structure = [str |-> "left_associative_op"]}

\* the [operator, operand] groups after the operand
GroupsOf(children) == IF Len(children) = 1 THEN <<>> ELSE children[2].items

\* an operand V1, alone or followed by a list of [operator, operand] groups
IsOperandThenGroups(children) ==
    \/ Len(children) = 1
    \/ /\ Len(children) = 2
       /\ is_list(children[2])
       /\ \A j \in 1..Len(children[2].items) :
              LET group == children[2].items[j] IN
              /\ is_list(group)
              /\ Len(group.items) = 2
              /\ is_dict(group.items[1])
              /\ {"line", "col"} \subseteq DOMAIN group.items[1].d

\* ((V1 O1 V2) O2 V3) ... On Vn+1 for the first n groups
RECURSIVE LeftNesting(_, _, _)
LeftNesting(first, groups, n) ==
    IF n = 0 THEN first
    ELSE [k |-> "dict",
          d |-> [tag |-> "binary_op",
                 op |-> groups[n].items[1],
                 left |-> LeftNesting(first, groups, n - 1),
                 right |-> groups[n].items[2],
                 line |-> groups[n].items[1].d.line,
                 col |-> groups[n].items[1].d.col]]

\* C4: the visit of a rule with `structure: left_associative_op` (no discard, leaf or
\* promote before it) whose children, None aside, are an operand V1 and then a list of
\* [operator, operand] groups (O1,V2)...(On-1,Vn) returns the left-leaning nesting
\* ((V1 O1 V2) O2 V3)...On-1 Vn of binary_op nodes, each with op = Oi, left = the result
\* so far, right = Vi+1 and the line and col of Oi; with no group it returns V1 unchanged.
C4_LeftAssociativeNesting ==
    ParserCalled =>
        \A i \in LeftAssociativeVisits :
            LET children == not_none(last_visits[i].visited_children) IN
            (Len(children) >= 1 /\ IsOperandThenGroups(children)) =>
                last_visits[i].ret =
                    LeftNesting(children[1], GroupsOf(children), Len(GroupsOf(children)))

\* a left-associative rule was visited with an operand and two groups
C4_TwoGroupsFolded ==
    /\ ParserCalled
    /\ \E i \in LeftAssociativeVisits :
           LET children == not_none(last_visits[i].visited_children) IN
           /\ Len(children) = 2
           /\ IsOperandThenGroups(children)
           /\ Len(GroupsOf(children)) = 2
           /\ is_dict(last_visits[i].ret)

MapChildrenVisits ==
    {i \in RuleVisits :
        /\ StructureApplies(last_visits[i].rule_name)
        /\ "dict" \in DOMAIN AstOf(last_visits[i].rule_name).structure}

map_children_of(rule_name) ==
    get(AstOf(rule_name).structure.dict, "map_children", EmptyDict)

\* the visited children, or the items of the only visited child when it is a list
ScannedChildren(visited_children) ==
    IF Len(visited_children) = 1 /\ is_list(visited_children[1])
    THEN visited_children[1].items ELSE visited_children

\* the 1-based place of the first node at 0-based index >= from_child that is neither None
\* nor an empty list; 0 when there is none
FirstRealFrom(nodes, from_child) ==
    LET real == {j \in (from_child + 1)..Len(nodes) :
                    /\ ~is_none(nodes[j])
                    /\ ~(is_list(nodes[j]) /\ Len(nodes[j].items) = 0)}
    IN  IF real = {} THEN 0 ELSE CHOOSE j \in real : \A l \in real : j <= l

\* the visit returned a node whose children map each name to the first real node among
\* `nodes` from its from_child on, and hold no other name
MapsFirstReal(visit_entry, nodes) ==
    LET mapping == map_children_of(visit_entry.rule_name)
        ret == visit_entry.ret
    IN  /\ is_dict(ret)
        /\ "children" \in DOMAIN ret.d
        /\ is_dict(ret.d.children)
        /\ DOMAIN ret.d.children.d \subseteq DOMAIN mapping
        /\ \A name \in DOMAIN mapping :
               LET j == FirstRealFrom(nodes, mapping[name].from_child) IN
               IF j = 0 THEN name \notin DOMAIN ret.d.children.d
               ELSE /\ name \in DOMAIN ret.d.children.d
                    /\ ret.d.children.d[name] = nodes[j]

\* C5 as stated: each name mapped with from_child: i holds the first visited child at
\* index >= i that is neither None nor an empty list, and is absent when there is none.
C5_FirstRealVisitedChild ==
    ParserCalled =>
        \A i \in MapChildrenVisits :
            MapsFirstReal(last_visits[i], last_visits[i].visited_children)

\* C5, amended: the children scanned are the visited children or, when the only visited
\* child is a list, the items of that list; each name mapped with from_child: i holds the
\* first scanned child at index >= i that is neither None nor an empty list, and is
\* absent from `children` when there is none, so that an omitted optional part leaves a
\* node with only the names whose parts matched.
C5_FirstRealScannedChild ==
    ParserCalled =>
        \A i \in MapChildrenVisits :
            MapsFirstReal(last_visits[i], ScannedChildren(last_visits[i].visited_children))

\* a mapped rule was visited with its optional part omitted: a name fell forward over a
\* None and another name is absent
C5_OptionalPartOmitted ==
    /\ ParserCalled
    /\ \E i \in MapChildrenVisits :
           LET mapping == map_children_of(last_visits[i].rule_name)
               nodes == ScannedChildren(last_visits[i].visited_children)
           IN  /\ is_dict(last_visits[i].ret)
               /\ \E name \in DOMAIN mapping :
                      name \notin DOMAIN last_visits[i].ret.d.children.d
               /\ \E name \in DOMAIN mapping :
                      /\ name \in DOMAIN last_visits[i].ret.d.children.d
                      /\ FirstRealFrom(nodes, mapping[name].from_child)
                             > mapping[name].from_child + 1

LeafTrueVisits ==
    {i \in RuleVisits : get(AstOf(last_visits[i].rule_name), "leaf", FALSE)}

\* the text denotes an integral number: no digit other than 0 after a point
IsIntegral(text) ==
    \A j \in 1..Len(text) :
        \A l \in (j + 1)..Len(text) : SubSeq(text, j, j) = "." => SubSeq(text, l, l) = "0"

DiscardedRules == {rule_name \in DOMAIN RuleDefs : get(AstOf(rule_name), "discard", FALSE)}

\* the tags a node can get from elsewhere than its rule's name: the `tag` directives of
\* the grammar's rules and of their structure mappings, the visitor's own tags, and the
\* token types
OtherTagSources ==
    {AstOf(rule_name).tag : rule_name \in {r \in DOMAIN RuleDefs : "tag" \in DOMAIN AstOf(r)}}
        \cup {AstOf(rule_name).structure.dict.tag :
                 rule_name \in {r \in DOMAIN RuleDefs :
                                   /\ "structure" \in DOMAIN AstOf(r)
                                   /\ "dict" \in DOMAIN AstOf(r).structure
                                   /\ "tag" \in DOMAIN AstOf(r).structure.dict}}
        \cup {"literal", "regex", "binary_op"}
        \cup (IF parser_obj.config.is_token_grammar
              THEN {token_types(parser_obj.config.grammar_dict)[j] :
                       j \in 1..Len(token_types(parser_obj.config.grammar_dict))}
              ELSE {})

ParserConstructed == scenario # 0 /\ parser_obj.class = "Parser"
ConfigurationError == ParserFailed /\ parser_obj.exc = "ValueError"

\* the grammar the linter sees: the caller's grammar merged with its subgrammars and
\* normalized (with its external roots), when that much of the construction succeeds
LintedGrammar ==
    bind(_build_unified_grammar(Files, input_grammar), LAMBDA unified :
         IF unified.ok THEN [ok |-> TRUE, s |-> _normalize_grammar(unified.s)] ELSE unified)

\* the names reachable from the roots through `rule` references
RECURSIVE ReachableFrom(_, _)
ReachableFrom(rules, reached) ==
    LET further == UNION {find_references(rules[name]) : name \in reached \cap DOMAIN rules} IN
    IF further \subseteq reached THEN reached ELSE ReachableFrom(rules, reached \cup further)

\* the rules without `__` in their name that no root reaches
UnreachableRules(grammar_dict) ==
    LET roots == {get(grammar_dict, "start_rule", "start")}
                     \cup get(grammar_dict, "_external_refs", {})
    IN  {rule_name \in DOMAIN grammar_dict.rules \ ReachableFrom(grammar_dict.rules, roots) :
            ~contains(rule_name, SEP)}

\* C8: constructing a Parser fails with a configuration error whenever a rule whose name
\* has no `__` is reachable neither from the start_rule nor from an external root; a
\* grammar whose rules are all reachable is not rejected as having unreachable rules.
C8_UnreachableRulesRejected ==
    (ParserConstructed /\ LintedGrammar.ok) =>
        IF UnreachableRules(LintedGrammar.s) # {}
        THEN ConfigurationError
        ELSE ~(ParserFailed /\ parser_obj.msg = "Unreachable rules detected")

\* the files a grammar's subgrammar directives name, among the files there are
FilesNamedIn(grammar_dict) ==
    {file \in DOMAIN Files :
        \E rule_name \in DOMAIN get(grammar_dict, "rules", EmptyDict) :
            LET directives == find_subgrammars(grammar_dict.rules[rule_name]) IN
            \E j \in 1..Len(directives) : directives[j].subgrammar.file = file}

RECURSIVE FilesReached(_)
FilesReached(seen) ==
    LET more == UNION {FilesNamedIn(Files[file]) : file \in seen} IN
    IF more \subseteq seen THEN seen ELSE FilesReached(seen \cup more)

\* the grammars a construction reads: the caller's, and its subgrammars' files
GrammarsRead ==
    {input_grammar} \cup {Files[file] : file \in FilesReached(FilesNamedIn(input_grammar))}

\* some rule's `ast` has promote on together with structure, or together with discard on
HasPromoteConflict(grammar_dict) ==
    \E rule_name \in DOMAIN get(grammar_dict, "rules", EmptyDict) :
        LET ast == get(grammar_dict.rules[rule_name], "ast", EmptyDict) IN
        /\ "promote" \in DOMAIN ast /\ ast.promote
        /\ \/ "structure" \in DOMAIN ast
           \/ "discard" \in DOMAIN ast /\ ast.discard

\* the body of a definition (its `ast` block aside) holds a subgrammar directive
RECURSIVE HoldsSubgrammar(_)
HoldsSubgrammar(node) ==
    \/ "subgrammar" \in DOMAIN node
    \/ \E j \in 1..Len(parts_of(node)) : HoldsSubgrammar(parts_of(node)[j])

HasLeafWithSubgrammar(grammar_dict) ==
    \E rule_name \in DOMAIN get(grammar_dict, "rules", EmptyDict) :
        LET ast == get(grammar_dict.rules[rule_name], "ast", EmptyDict) IN
        /\ "leaf" \in DOMAIN ast /\ ast.leaf
        /\ HoldsSubgrammar(grammar_dict.rules[rule_name])

\* C9: constructing a Parser fails with a configuration error when some rule's `ast` has
\* promote (on) together with structure, or promote (on) together with discard (on), and
\* when, in the caller's grammar or in a subgrammar file, a rule with `leaf: true` holds a
\* subgrammar directive anywhere in its body.
C9_DirectiveConflictsRejected ==
    (/\ ParserConstructed
     /\ \E grammar_dict \in GrammarsRead :
            HasPromoteConflict(grammar_dict) \/ HasLeafWithSubgrammar(grammar_dict))
        => ConfigurationError

\* a grammar with promote and structure in one rule was rejected for it
C9_PromoteStructureRejected ==
    /\ ConfigurationError
    /\ HasPromoteConflict(input_grammar)
    /\ parser_obj.msg = "'promote' and 'structure' directives are mutually exclusive."

\* the PEG source of a definition: sequences and choices as C10 has them, the other
\* kinds as transpile_rule renders them
RECURSIVE Rendered(_, _)
Rendered(definition, is_token_grammar) ==
    LET parts(items) == [j \in 1..Len(items) |-> Rendered(items[j], is_token_grammar)] IN
    IF "sequence" \in DOMAIN definition
    THEN IF Len(definition.sequence) = 0 THEN "(\"\")?"
         ELSE IF Len(definition.sequence) = 1
         THEN "(" \o Rendered(definition.sequence[1], is_token_grammar) \o " (\"\")?)"
         ELSE "(" \o join(" ", parts(definition.sequence)) \o ")"
    ELSE IF "choice" \in DOMAIN definition
    THEN "(" \o join(" / ", parts(definition.choice)) \o ")"
    ELSE IF "zero_or_more" \in DOMAIN definition
    THEN "(" \o Rendered(definition.zero_or_more, is_token_grammar) \o ")*"
    ELSE IF "one_or_more" \in DOMAIN definition
    THEN "(" \o Rendered(definition.one_or_more, is_token_grammar) \o ")+"
    ELSE IF "optional" \in DOMAIN definition
    THEN "(" \o Rendered(definition.optional, is_token_grammar) \o ")?"
    ELSE IF "positive_lookahead" \in DOMAIN definition
    THEN "&(" \o Rendered(definition.positive_lookahead, is_token_grammar) \o ")"
    ELSE IF "negative_lookahead" \in DOMAIN definition
    THEN "!(" \o Rendered(definition.negative_lookahead, is_token_grammar) \o ")"
    ELSE transpile_rule(definition, is_token_grammar).s

\* a definition holds `choice: []`
RECURSIVE HoldsEmptyChoice(_)
HoldsEmptyChoice(node) ==
    \/ "choice" \in DOMAIN node /\ Len(node.choice) = 0
    \/ \E j \in 1..Len(parts_of(node)) : HoldsEmptyChoice(parts_of(node)[j])

\* the texts of the alternatives of a choice between sequences of one literal or none
AlternativeTexts(choice) ==
    {IF Len(choice[j].sequence) = 0 THEN "" ELSE choice[j].sequence[1].literal :
         j \in 1..Len(choice)}

ChoiceOfSequencesGrammars ==
    {choice_of_sequences_grammar, choice_with_empty_alternative_grammar}

\* C10: in the PEG source of a constructed Parser every rule is rendered with an empty
\* sequence as ("")?, a one-item sequence [a] as (a ("")?), a longer sequence as
\* (a b ...) and a choice as (a / b / ...); a grammar that holds `choice: []` is rejected
\* at construction; a choice between unnamed one-item sequences, with or without an
\* empty-sequence alternative, compiles, and each alternative parses (the empty
\* alternative parses the empty text).
C10_SequencesAndChoicesRendered ==
    /\ ParserBuilt =>
           LET config == parser_obj.config
               lines == split(config.grammar_string, "\n")
           IN  \A j \in 1..Len(config.grammar_dict.order) :
                   lines[j] = config.grammar_dict.order[j] \o " = "
                                  \o Rendered(config.grammar_dict.rules[config.grammar_dict.order[j]],
                                              config.is_token_grammar)
    /\ (/\ ParserConstructed
        /\ \E rule_name \in DOMAIN input_grammar.rules :
               HoldsEmptyChoice(input_grammar.rules[rule_name]))
           => ConfigurationError
    /\ (ParserConstructed /\ input_grammar \in ChoiceOfSequencesGrammars) => ParserBuilt
    /\ (/\ ParserCalled
        /\ input_grammar \in ChoiceOfSequencesGrammars
        /\ last_call.start_rule \in {"", "main"}
        /\ last_call.text \in AlternativeTexts(input_grammar.rules.main.choice))
           => last_result.status = "success"

\* the choice with an empty alternative parsed the empty text
C10_EmptyAlternativeParsed ==
    /\ ParseSucceeded
    /\ input_grammar = choice_with_empty_alternative_grammar
    /\ last_call.text = ""
    /\ contains(parser_obj.config.grammar_string, "(\"a\" (\"\")?) / (\"\")?")

\* how many of the first n tokens have the type
CountOf(tokens, type, n) == Cardinality({j \in 1..n : tokens[j].type = type})

TypesOf(tokens) == [j \in 1..Len(tokens) |-> tokens[j].type]

\* the levels of an indent stack above 0
LevelsAboveZero(indent_stack) == {j \in 1..Len(indent_stack) : indent_stack[j] > 0}

\* C11: with a handle_indent spec, the end of input emits one DEDENT for each level of
\* the indent stack above 0, so the tokens a successful tokenize returns hold as many
\* DEDENT as INDENT and no prefix of them holds more DEDENT than INDENT; "a", newline,
\* two blanks and "b", newline, two blanks and "c", newline gives a INDENT b c DEDENT.
C11_DedentsBalanceIndents ==
    /\ [][(lexer.state = "scanning" /\ lexer'.state = "returned"
               /\ handles_indentation(lexer.token_specs))
              => /\ Len(lexer'.tokens)
                        = Len(lexer.tokens) + Cardinality(LevelsAboveZero(lexer.indent_stack))
                 /\ SubSeq(lexer'.tokens, 1, Len(lexer.tokens)) = lexer.tokens
                 /\ \A j \in (Len(lexer.tokens) + 1)..Len(lexer'.tokens) :
                        lexer'.tokens[j].type = "DEDENT"]_vars
    /\ []((lexer.state = "returned" /\ handles_indentation(lexer.token_specs))
              => /\ CountOf(lexer.tokens, "DEDENT", Len(lexer.tokens))
                        = CountOf(lexer.tokens, "INDENT", Len(lexer.tokens))
                 /\ \A n \in 0..Len(lexer.tokens) :
                        CountOf(lexer.tokens, "DEDENT", n) <= CountOf(lexer.tokens, "INDENT", n)
                 /\ lexer.text = "a\n  b\n  c\n"
                        => /\ TypesOf(lexer.tokens)
                                  = <<"NAME", "INDENT", "NAME", "NAME", "DEDENT">>
                           /\ [j \in {1, 3, 4} |-> lexer.tokens[j].value]
                                  = (1 :> "a") @@ (3 :> "b") @@ (4 :> "c"))

\* a tokenize that ended inside two nested indented blocks returned, with two DEDENT at
\* the end of its tokens
C11_TwoLevelsClosed ==
    /\ lexer.state = "returned"
    /\ handles_indentation(lexer.token_specs)
    /\ lexer.text = "a\n b\n  b"
    /\ TypesOf(lexer.tokens) = <<"NAME", "INDENT", "NAME", "INDENT", "NAME", "DEDENT", "DEDENT">>

\* the end of the match of the i-th token spec at the lexer's position (-1: no match)
MatchEnd(i) == re_match(lexer.token_specs[i].regex, lexer.text, lexer.pos)

MatchingSpecs == {i \in 1..Len(lexer.token_specs) : MatchEnd(i) >= 0}

\* the matching spec with the longest match, the earliest declared among the longest
SelectedSpec ==
    LET longest == {i \in MatchingSpecs : \A j \in MatchingSpecs : MatchEnd(j) <= MatchEnd(i)}
    IN  CHOOSE i \in longest : \A j \in longest : i <= j

AtPosition == lexer.state = "scanning" /\ lexer.pos < Len(lexer.text)

\* C12: at each position tokenize selects, among the token specs whose regex matches
\* there, the one with the longest match and, among equally long matches, the one
\* declared earliest; the input consumed is that match, and the action taken is the
\* selected spec's: its token is emitted, or nothing (skip), or only INDENT and DEDENT
\* tokens (handle_indent, which alone can fail, with an indentation error); with no
\* matching spec tokenize fails with a syntax error.
C12_LongestThenEarliest ==
    [][AtPosition =>
          IF MatchingSpecs = {}
          THEN lexer'.state = "raised" /\ lexer'.exc = "SyntaxError"
          ELSE LET spec == lexer.token_specs[SelectedSpec]
                   action == get(spec, "action", "")
                   value == SubSeq(lexer.text, lexer.pos + 1, MatchEnd(SelectedSpec))
                   emitted == SubSeq(lexer'.tokens, Len(lexer.tokens) + 1, Len(lexer'.tokens))
               IN  IF lexer'.state = "raised"
                   THEN action = "handle_indent" /\ lexer'.exc = "IndentationError"
                   ELSE /\ lexer'.state = "scanning"
                        /\ lexer'.pos = lexer.pos + Len(value)
                        /\ SubSeq(lexer'.tokens, 1, Len(lexer.tokens)) = lexer.tokens
                        /\ IF action = "handle_indent"
                           THEN \A j \in 1..Len(emitted) :
                                    emitted[j].type \in {"INDENT", "DEDENT"}
                           ELSE IF action = "skip" THEN emitted = <<>>
                           ELSE /\ Len(emitted) = 1
                                /\ emitted[1].type = spec.token
                                /\ emitted[1].value = value]_vars

\* "if ifa" was tokenized: the keyword won a tie with a name, the skip a tie with a
\* blank, and a longer name won over the keyword
C12_KeywordAndLongerName ==
    /\ lexer.state = "returned"
    /\ lexer.token_specs = keyword_lexer.tokens
    /\ lexer.text = "if ifa"
    /\ TypesOf(lexer.tokens) = <<"IF", "NAME">>
    /\ lexer.tokens[2].value = "ifa"


\* a step of the lexer at a position where the selected spec handles indentation
AtIndentation ==
    /\ AtPosition
    /\ MatchingSpecs # {}
    /\ get(lexer.token_specs[SelectedSpec], "action", "") = "handle_indent"

StrictlyIncreasingFromZero(indent_stack) ==
    /\ Len(indent_stack) >= 1
    /\ indent_stack[1] = 0
    /\ \A j \in 1..(Len(indent_stack) - 1) : indent_stack[j] < indent_stack[j + 1]

\* C18: the indent stack starts as [0]; a handle_indent match of width w above the top
\* pushes w and emits exactly one INDENT; otherwise one DEDENT is emitted for each level
\* popped while w is below the top, and tokenize fails with an indentation error when
\* w then differs from the top.  So the stack is strictly increasing from its bottom 0
\* in every reachable state, and after a handle_indent step that does not fail its top
\* is w.
C18_IndentStackDiscipline ==
    /\ [][/\ lexer.state = "none" /\ lexer'.state = "scanning" => lexer'.indent_stack = <<0>>
          /\ AtIndentation =>
               LET w == MatchEnd(SelectedSpec) - lexer.pos - 1
                   stack == lexer.indent_stack
                   top == stack[Len(stack)]
                   popped == {j \in 1..Len(stack) : w < stack[j]}
                   kept == SubSeq(stack, 1, Len(stack) - Cardinality(popped))
                   emitted == SubSeq(lexer'.tokens, Len(lexer.tokens) + 1, Len(lexer'.tokens))
               IN  IF w > top
                   THEN /\ lexer'.state = "scanning"
                        /\ lexer'.indent_stack = Append(stack, w)
                        /\ TypesOf(emitted) = <<"INDENT">>
                   ELSE IF kept[Len(kept)] # w
                   THEN lexer'.state = "raised" /\ lexer'.exc = "IndentationError"
                   ELSE /\ lexer'.state = "scanning"
                        /\ lexer'.indent_stack = kept
                        /\ TypesOf(emitted) = [j \in 1..Cardinality(popped) |-> "DEDENT"]
                        /\ lexer'.indent_stack[Len(lexer'.indent_stack)] = w]_vars
    /\ [](lexer.state = "scanning" => StrictlyIncreasingFromZero(lexer.indent_stack))

\* two levels were pushed one after the other and popped by one match of width 0
C18_TwoLevelsPopped ==
    /\ lexer.state = "scanning"
    /\ lexer.text = "a\n b\n  b\n"
    /\ lexer.pos = Len(lexer.text)
    /\ lexer.indent_stack = <<0>>
    /\ TypesOf(lexer.tokens) = <<"NAME", "INDENT", "NAME", "INDENT", "NAME", "DEDENT", "DEDENT">>

----------------------------------------------------------------------------
(* Claims about parse calls one after the other *)

\* the parser of the scenario, constructed once more
ConstructedAgain ==
    IF Scenarios[scenario].class = "Parser"
    THEN Parser(Files, input_grammar) ELSE PlaceholderParser(input_grammar)

\* a step that is a parse call
ParseCall == parser_obj.state = "built" /\ last_call'.state = "called"

----------------------------------------------------------------------------
(* Claims about the placeholder parser *)

PlaceholderConstructed == scenario # 0 /\ parser_obj.class = "PlaceholderParser"

\* a definition with each directive in it replaced: the directive's placeholder (an
\* empty sequence when it has none) and the keys the definition has besides
RECURSIVE WithPlaceholders(_)
WithPlaceholders(node) ==
    IF "subgrammar" \in DOMAIN node
    THEN LET placeholder == IF "placeholder" \in DOMAIN node.subgrammar
                            THEN node.subgrammar.placeholder ELSE [sequence |-> <<>>]
         IN  [key \in (DOMAIN node \ {"subgrammar"}) \cup DOMAIN placeholder |->
                 IF key \in DOMAIN placeholder THEN placeholder[key] ELSE node[key]]
    ELSE [key \in DOMAIN node |->
             IF in_keys(key, ListKeys)
             THEN [j \in 1..Len(node[key]) |-> WithPlaceholders(node[key][j])]
             ELSE IF in_keys(key, DictKeys) THEN WithPlaceholders(node[key])
             ELSE node[key]]

\* the caller's grammar with the directives of its rule bodies replaced
GrammarWithPlaceholders ==
    [input_grammar EXCEPT
        !.rules = [rule_name \in DOMAIN input_grammar.rules |->
                      WithPlaceholders(input_grammar.rules[rule_name])]]

\* what the lint checks would say of that grammar
LintOfPlaceholders ==
    LET normalized == _normalize_grammar(GrammarWithPlaceholders)
        grammar_dict == [key \in DOMAIN normalized \ {"_external_refs"} |-> normalized[key]]
    IN  <<_check_for_unreachable_rules(grammar_dict, get(normalized, "_external_refs", {})),
          _check_for_always_empty_rules(grammar_dict),
          lint_directives(grammar_dict.rules, grammar_dict.order)>>

\* C15: after the construction of a PlaceholderParser, every subgrammar directive of
\* the rule bodies (a whole body, an item of a list, a part under another shape key)
\* is replaced in the parser's copy of the grammar by the directive's placeholder, an
\* empty sequence when it has none, the other keys of its node kept; no subgrammar
\* file is opened, and the reachability, always-empty and directive-conflict checks
\* are not run.
C15_DirectivesReplaced ==
    (PlaceholderConstructed /\ "rules" \in DOMAIN input_grammar) =>
        LET compiled == _compile_grammar_from_dict(GrammarWithPlaceholders, FALSE) IN
        /\ compiled.ok => parser_obj.state = "built" /\ parser_obj.config = compiled
        /\ ~compiled.ok => /\ parser_obj.state = "failed"
                           /\ parser_obj.exc = compiled.exc
                           /\ parser_obj.msg = compiled.msg
        /\ parser_obj.state = "built" =>
               \A rule_name \in DOMAIN parser_obj.config.grammar_dict.rules :
                   ~HoldsSubgrammar(parser_obj.config.grammar_dict.rules[rule_name])
        /\ parser_obj.state = "failed" =>
               /\ parser_obj.exc # "FileNotFoundError"
               /\ \A j \in 1..3 : ~LintOfPlaceholders[j].ok =>
                                      parser_obj.msg # LintOfPlaceholders[j].msg

\* a PlaceholderParser was built of a grammar with directives of each kind, one naming
\* a file that is not there, although each of the three checks would have rejected it
C15_PlaceholdersInPlace ==
    /\ PlaceholderConstructed
    /\ input_grammar = placeholder_grammar
    /\ parser_obj.state = "built"
    /\ parser_obj.config.grammar_dict.rules.num = [ast |-> [leaf |-> TRUE], regex |-> "[0-9]"]
    /\ parser_obj.config.grammar_dict.rules.gap = [sequence |-> <<>>]
    /\ parser_obj.config.grammar_dict.rules.main.sequence[4] =
           [sequence |-> <<>>, ast |-> [name |-> "n"]]
    /\ parser_obj.config.grammar_dict.rules.main.sequence[5] = [optional |-> [literal |-> "i"]]
    /\ ~LintOfPlaceholders[1].ok
    /\ ~LintOfPlaceholders[2].ok
    /\ last_call.state = "called"
    /\ last_call.text = "x1i"
    /\ last_result.status = "success"

----------------------------------------------------------------------------
(* Claims about the always-empty check *)

CheckEnded == empty_check.state \in {"raised", "returned"}

CheckedRules == empty_check.grammar_dict.rules

MarkedDiscard(node) == get(get(node, "ast", EmptyDict), "discard", FALSE)

\* the lexer spec of a token type is a skip or discarded
SkippedOrDiscarded(token_type) ==
    LET specs == empty_check.grammar_dict.lexer.tokens
        of_type == {j \in 1..Len(specs) : get(specs[j], "token", "") = token_type}
    IN  /\ of_type # {}
        /\ LET spec == specs[CHOOSE j \in of_type : \A k \in of_type : j <= k]
           IN  get(spec, "action", "") = "skip" \/ MarkedDiscard(spec)

NamesChild(node) == "name" \in DOMAIN get(node, "ast", EmptyDict)

\* the predicate as stated, a reference to a rule answered by the memo of the check
RECURSIVE EmptyAsStated(_)
EmptyAsStated(node) ==
    LET ast == get(node, "ast", EmptyDict) IN
    IF MarkedDiscard(node) THEN TRUE
    ELSE IF \/ "literal" \in DOMAIN node
            \/ "regex" \in DOMAIN node
            \/ "positive_lookahead" \in DOMAIN node
            \/ "negative_lookahead" \in DOMAIN node
            \/ get(ast, "leaf", FALSE)
            \/ "structure" \in DOMAIN ast
    THEN FALSE
    ELSE IF "token" \in DOMAIN node THEN SkippedOrDiscarded(node.token)
    ELSE IF "rule" \in DOMAIN node
    THEN node.rule \in DOMAIN empty_check.memo /\ empty_check.memo[node.rule]
    ELSE IF "choice" \in DOMAIN node
    THEN \A j \in 1..Len(node.choice) : EmptyAsStated(node.choice[j])
    ELSE IF "sequence" \in DOMAIN node
    THEN /\ \A j \in 1..Len(node.sequence) : ~NamesChild(node.sequence[j])
         /\ \A j \in 1..Len(node.sequence) : EmptyAsStated(node.sequence[j])
    ELSE IF "one_or_more" \in DOMAIN node THEN EmptyAsStated(node.one_or_more)
    ELSE IF "zero_or_more" \in DOMAIN node THEN EmptyAsStated(node.zero_or_more)
    ELSE IF "optional" \in DOMAIN node THEN EmptyAsStated(node.optional)
    ELSE FALSE

\* C17: the always-empty predicate answers empty for a node whose `ast` has discard,
\* and not empty for a literal, a regex, a lookahead, a token whose lexer spec is
\* neither a skip nor discarded, and a node with leaf or a structure directive; a
\* choice is empty iff all its alternatives are, a sequence iff no part names a child
\* and all parts are empty, a quantifier iff its inner node is.  The check fails iff
\* some rule not marked discard is classified empty.
C17_EmptyAsStated ==
    CheckEnded =>
        /\ \A rule_name \in DOMAIN empty_check.memo :
               empty_check.memo[rule_name] = EmptyAsStated(CheckedRules[rule_name])
        /\ empty_check.state = "raised" <=>
               \E rule_name \in DOMAIN CheckedRules :
                   /\ ~MarkedDiscard(CheckedRules[rule_name])
                   /\ EmptyAsStated(CheckedRules[rule_name])

\* the rules a definition refers to
RECURSIVE RulesIn(_)
RulesIn(node) ==
    (IF "rule" \in DOMAIN node THEN {node.rule} ELSE {})
        \cup UNION {RulesIn(parts_of(node)[j]) : j \in 1..Len(parts_of(node))}

\* the rules reached from a set of rules through references
RECURSIVE ReachedFrom(_)
ReachedFrom(names) ==
    LET more == UNION {RulesIn(CheckedRules[name]) : name \in names \cap DOMAIN CheckedRules}
    IN  IF more \subseteq names THEN names ELSE ReachedFrom(names \cup more)

\* the rule is on a cycle of references
OnOwnCycle(rule_name) == rule_name \in ReachedFrom(RulesIn(CheckedRules[rule_name]))

\* the predicate with no memo: a reference to a rule that is under examination (open)
\* is answered non-empty, any other by the examination of the rule's body
RECURSIVE EmptyWithOpen(_, _)
EmptyWithOpen(node, open) ==
    LET ast == get(node, "ast", EmptyDict) IN
    IF MarkedDiscard(node) THEN TRUE
    ELSE IF "structure" \in DOMAIN ast THEN FALSE
    ELSE IF "rule" \in DOMAIN node
    THEN /\ node.rule \notin open
         /\ node.rule \in DOMAIN CheckedRules
         /\ EmptyWithOpen(CheckedRules[node.rule], open \cup {node.rule})
    ELSE IF "token" \in DOMAIN node THEN SkippedOrDiscarded(node.token)
    ELSE IF "literal" \in DOMAIN node \/ "regex" \in DOMAIN node \/ get(ast, "leaf", FALSE)
    THEN FALSE
    ELSE IF "positive_lookahead" \in DOMAIN node \/ "negative_lookahead" \in DOMAIN node
    THEN TRUE
    ELSE IF "choice" \in DOMAIN node
    THEN \A j \in 1..Len(node.choice) : EmptyWithOpen(node.choice[j], open)
    ELSE IF "sequence" \in DOMAIN node
    THEN /\ \A j \in 1..Len(node.sequence) : ~NamesChild(node.sequence[j])
         /\ \A j \in 1..Len(node.sequence) : EmptyWithOpen(node.sequence[j], open)
    ELSE IF "one_or_more" \in DOMAIN node THEN EmptyWithOpen(node.one_or_more, open)
    ELSE IF "zero_or_more" \in DOMAIN node THEN EmptyWithOpen(node.zero_or_more, open)
    ELSE IF "optional" \in DOMAIN node THEN EmptyWithOpen(node.optional, open)
    ELSE FALSE

NoRuleTwice(examined) ==
    \A j \in 1..Len(examined) : \A k \in 1..Len(examined) : examined[j] = examined[k] => j = k

\* C20: the always-empty check ends on every grammar, also on one whose rules refer
\* to each other in a cycle: a rule is seeded as non-empty before its body is
\* examined, so that a reference to a rule under examination is answered non-empty;
\* the body of each rule is examined at most once, so the examinations are no more
\* than the rules, and each turn of the loop moves on to the next rule until none is
\* left; a rule on a cycle of references is classified non-empty.
C20_CheckEndsOnCycles ==
    /\ [][empty_check.state = "checking" =>
             IF empty_check.next <= Len(empty_check.grammar_dict.order)
             THEN empty_check'.state = "checking" /\ empty_check'.next = empty_check.next + 1
             ELSE empty_check'.state \in {"raised", "returned"}]_vars
    /\ [](empty_check.state # "none" =>
             /\ NoRuleTwice(empty_check.examined)
             /\ {empty_check.examined[j] : j \in 1..Len(empty_check.examined)}
                    = DOMAIN empty_check.memo
             /\ \A rule_name \in DOMAIN empty_check.memo :
                    /\ empty_check.memo[rule_name]
                           = EmptyWithOpen(CheckedRules[rule_name], {rule_name})
                    /\ OnOwnCycle(rule_name) => ~empty_check.memo[rule_name])

\* the check of a grammar whose two rules refer to each other ended, with both
\* bodies examined once and both rules classified non-empty
C20_MutualReferencesChecked ==
    /\ CheckEnded
    /\ empty_check.grammar_dict.rules = [a |-> [sequence |-> <<[rule |-> "b"]>>],
                                         b |-> [optional |-> [rule |-> "a"]]]
    /\ empty_check.examined = <<"a", "b">>
    /\ empty_check.memo = [a |-> FALSE, b |-> FALSE]
    /\ empty_check.state = "returned"

----------------------------------------------------------------------------
(* Claims about the position finder *)

\* the offset clamped into [0, len(text)]
Clamped(offset, text) ==
    IF offset < 0 THEN 0 ELSE IF offset > Len(text) THEN Len(text) ELSE offset

\* C19: find clamps the offset into [0, len(text)] and returns the 1-based index of
\* the greatest line start not above it as the line, and the offset less that line
\* start plus 1 as the column; the line starts are strictly ascending from 0 (each
\* other one the place after a newline); line and column are at least 1, also at the
\* end of the text and of a text that ends in a newline.
C19_LineAndColumn ==
    finder.state = "found" =>
        LET offset == Clamped(finder.offset, finder.text)
            starts == finder.line_starts
        IN  /\ starts[1] = 0
            /\ \A j \in 1..(Len(starts) - 1) : starts[j] < starts[j + 1]
            /\ \A j \in 2..Len(starts) : Ch(finder.text, starts[j]) = "\n"
            /\ Len(starts) = 1 + Cardinality({i \in 1..Len(finder.text) :
                                                 Ch(finder.text, i) = "\n"})
            /\ finder.line \in 1..Len(starts)
            /\ starts[finder.line] <= offset
            /\ \A j \in 1..Len(starts) : starts[j] <= offset => j <= finder.line
            /\ finder.col = offset - starts[finder.line] + 1
            /\ finder.line >= 1
            /\ finder.col >= 1

\* an offset beyond the end of a text that ends in a newline: the empty last line
C19_PastFinalNewline ==
    /\ finder.state = "found"
    /\ finder.text = "a\n\n"
    /\ finder.offset > Len(finder.text)
    /\ finder.line = 3
    /\ finder.col = 1

----------------------------------------------------------------------------
(* Claims about the transpiler *)

TranspilerCalled == transpiler.state = "made" /\ transpiler.calls > 0

\* the outcome of transpile(node) on a fresh Transpiler of the i-th configuration
OnFreshTranspiler(i, node) == Outcome(transpile(Transpiler(Transpilers[i].config), node))

\* C13: every transpile call starts with an empty state and indent level 0, so the
\* outcome of any call on a Transpiler, whatever calls came before it and however
\* they ended, is the outcome of the same call on a fresh Transpiler with the same
\* configuration.
C13_LaterCallAsOnFresh ==
    TranspilerCalled =>
        transpiler.result = OnFreshTranspiler(transpiler.config, transpiler.node)

\* the template of a node by the order: the first case that applies, then the
\* rule's template
TemplateInOrder(transpile_config, obj, node, subs) ==
    LET of_cases == IF "cases" \in DOMAIN transpile_config
                    THEN first_case(transpile_config.cases, obj, node, subs)
                    ELSE [ok |-> TRUE, template |-> None]
    IN  IF of_cases.ok /\ of_cases.template = None /\ "template" \in DOMAIN transpile_config
        THEN [ok |-> TRUE, template |-> PyStr(transpile_config.template)]
        ELSE of_cases

\* the outcome of transpile(node) when the root's template is picked by that order
InOrder(obj, node) ==
    LET start == [obj EXCEPT !.indent_level = 0, !.state = EmptyDict]
        transpile_config == get(start.transpile_rules, node.d.tag, EmptyDict)
        cs == children_subs(start, node, transpile_config, "")
        named == transpile_named(cs.obj, node.d,
                                 SelectSeq(<<"op", "left", "right">>,
                                           LAMBDA name : name \in DOMAIN node.d),
                                 1, cs.subs)
        selected == TemplateInOrder(transpile_config, named.obj, node, named.subs)
    IN  IF ~cs.ok THEN Outcome(cs)
        ELSE IF ~named.ok THEN Outcome(named)
        ELSE IF ~selected.ok THEN Outcome(selected)
        ELSE Outcome(produce_output(transpile_config, node, selected.template, named.subs))

\* a call on a node of a rule that neither indents nor sets state
PlainCall ==
    /\ transpiler.state = "made"
    /\ transpiler'.calls = transpiler.calls + 1
    /\ is_dict(transpiler'.node)
    /\ LET transpile_config ==
               get(transpiler.obj.transpile_rules, transpiler'.node.d.tag, EmptyDict)
       IN  ~get(transpile_config, "indent", FALSE) /\ "state_set" \notin DOMAIN transpile_config

\* C14: the template of a visited node is the first of: the first case that holds or
\* is a default, the rule's template, `use: value` / `use: text`, the rule's literal
\* value, the node's value, the node's text, else an error; a rule with cases and a
\* template falls through to the template when no case applies.
C14_TemplateByFirstMatch ==
    [][PlainCall => transpiler'.result = InOrder(transpiler.obj, transpiler'.node)]_vars

\* the state as the claim describes it, maps in maps: the value written at a path,
\* with the maps on the way made where there are none
RECURSIVE written(_, _, _)
written(d, keys, value) ==
    IF Len(keys) = 1 THEN (Head(keys) :> value) @@ d
    ELSE LET below == IF Head(keys) \in DOMAIN d /\ d[Head(keys)].k = "dict"
                      THEN d[Head(keys)].d ELSE EmptyDict
         IN  (Head(keys) :> Dict(written(below, Tail(keys), value))) @@ d

\* the value at a path of such a state, None where there is none
RECURSIVE read(_, _)
read(value, keys) ==
    IF Len(keys) = 0 THEN value
    ELSE IF value.k = "dict" /\ Head(keys) \in DOMAIN value.d
    THEN read(value.d[Head(keys)], Tail(keys))
    ELSE None

\* the template of the first case that holds in a state, or is a default
RECURSIVE FirstStated(_, _)
FirstStated(cases, state) ==
    IF "default" \in DOMAIN Head(cases) THEN Head(cases).default
    ELSE IF py_bool(read(Dict(state), Tail(split(Head(cases).if.path, "."))))
    THEN Head(cases).then
    ELSE FirstStated(Tail(cases), state)

\* the items of a state_set written in order
RECURSIVE AllWritten(_, _, _)
AllWritten(items, subs, state) ==
    IF Len(items) = 0 THEN state
    ELSE LET value == IF Head(items).value.k = "str"
                      THEN PyStr(format(Head(items).value.v, subs).s)
                      ELSE Head(items).value
         IN  AllWritten(Tail(items), subs,
                        written(state, split(Head(items).key, "."), value))

\* a node rendered as the claim orders it: the children from left to right, then the
\* node's own output by the state its children left, then its state_set
RECURSIVE AsOrdered(_, _, _)
AsOrdered(rules, node, state) ==
    LET RECURSIVE Each(_, _, _)
        Each(children, outs, before) ==
            IF Len(children) = 0 THEN [outs |-> outs, state |-> before]
            ELSE LET child == AsOrdered(rules, Head(children), before)
                 IN  Each(Tail(children), outs \o <<child.s>>, child.state)
        rule == rules[node.d.tag]
        kids == Each(IF "children" \in DOMAIN node.d THEN node.d.children.items ELSE <<>>,
                     <<>>, state)
        subs == [children |-> join(get(rule, "join_children_with", " "),
                                   SelectSeq(kids.outs, LAMBDA out : out # ""))]
        template == IF "cases" \in DOMAIN rule THEN FirstStated(rule.cases, kids.state)
                    ELSE IF "template" \in DOMAIN rule THEN rule.template
                    ELSE rule.value
    IN  [s |-> format(template, subs).s,
         state |-> AllWritten(get(rule, "state_set", <<>>), subs, kids.state)]

\* the configurations whose rules set and ask for state
StatefulTranspilers == {1, 2, 4}

\* the tags of the rules that neither indent nor fail
OrderedTags == {"prog", "scope", "use", "decl", "mark", "look", "outer"}

RECURSIVE OnlyOrderedTags(_)
OnlyOrderedTags(node) ==
    /\ is_dict(node)
    /\ node.d.tag \in OrderedTags
    /\ "children" \in DOMAIN node.d =>
           \A i \in 1..Len(node.d.children.items) : OnlyOrderedTags(node.d.children.items[i])

\* the paths that the rules write and ask for
StatePaths ==
    {<<"vars">>, <<"vars", "x">>, <<"seen">>, <<"seen", "x">>, <<"seen", "x", "y">>,
     <<"seen", "x", "z">>}

\* the state of the Transpiler at a path, a dict of the configuration looked through
StateAt(keys) ==
    deref(transpiler.obj.transpile_rules,
          resolve_in_state(transpiler.obj.transpile_rules, Dict(transpiler.obj.state), keys))

\* a call on a node of those rules
OrderedCall ==
    /\ TranspilerCalled
    /\ transpiler.config \in StatefulTranspilers
    /\ OnlyOrderedTags(transpiler.node)

\* C22: within one transpile call the state_set of a node is applied after its
\* children are rendered and its own output is produced: the cases of the node do not
\* see its own writes, every node rendered later sees them (later siblings, and
\* ancestors, which are rendered after their children), and a dotted key a.b.c writes
\* the value at state[a][b][c], with the maps on the way made.
C22_StateSetAfterOutput ==
    OrderedCall =>
        LET stated == AsOrdered(Transpilers[transpiler.config].config.rules,
                                transpiler.node, EmptyDict)
        IN  /\ transpiler.result = [k |-> "return", s |-> stated.s]
            /\ \A keys \in StatePaths : StateAt(keys) = read(Dict(stated.state), keys)

----------------------------------------------------------------------------
(* Claims about the rendering of references *)

\* the rules of the compiled grammar whose body is a reference to a rule
ReferenceRules ==
    {i \in 1..Len(parser_obj.config.grammar_dict.order) :
        "rule" \in DOMAIN parser_obj.config.grammar_dict.rules[parser_obj.config.grammar_dict.order[i]]}

\* an ast block with some key other than `name`
HasOtherKey(node) == "ast" \in DOMAIN node /\ DOMAIN node.ast \ {"name"} # {}

\* the reference as the claim renders it: the bare name, or the name in a sequence
\* with the no-op
AsStated(node) ==
    IF HasOtherKey(node) THEN "(" \o node.rule \o " (\"\")?)" ELSE node.rule

\* C21: a reference {rule: X} is rendered as the bare name X when it has no ast block
\* or an ast block with no key other than name (an empty block included), and as the
\* wrapped form exactly when its ast block has some key other than name.
C21_ReferenceRendering ==
    parser_obj.state = "built" =>
        \A i \in ReferenceRules :
            LET rule_name == parser_obj.config.grammar_dict.order[i] IN
            split(parser_obj.config.grammar_string, "\n")[i]
                = rule_name \o " = " \o AsStated(parser_obj.config.grammar_dict.rules[rule_name])
----------------------------------------------------------------------------
(* Claims about normalization *)

\* (a), (b) and (c): an ast block with more keys than just name, no reference, a
\* core shape key
HoistedAsStated(d) ==
    /\ "ast" \in DOMAIN d
    /\ DOMAIN d.ast \ {"name"} # {}
    /\ "rule" \notin DOMAIN d
    /\ DOMAIN d \cap inline_rule_keys # {}

\* how many definitions inside a definition, at any depth, satisfy (a), (b) and (c)
RECURSIVE ToHoistBelow(_)
ToHoistBelow(node) ==
    LET RECURSIVE Among(_)
        Among(parts) ==
            IF Len(parts) = 0 THEN 0
            ELSE (IF HoistedAsStated(Head(parts)) THEN 1 ELSE 0)
                 + ToHoistBelow(Head(parts)) + Among(Tail(parts))
    IN  Among(parts_of(node))

\* the same for the rules of a grammar
RECURSIVE ToHoistIn(_, _)
ToHoistIn(rules, names) ==
    IF names = {} THEN 0
    ELSE LET name == CHOOSE name \in names : TRUE
         IN  ToHoistBelow(rules[name]) + ToHoistIn(rules, names \ {name})

\* the grammar that is normalized: the caller's grammar merged with its subgrammars
UnifiedGrammar == _build_unified_grammar(Files, input_grammar).s

\* C23: normalization hoists a definition inside a rule into a rule of its own exactly
\* when (a) its ast block has more keys than just name, (b) it is no reference and
\* (c) it has a core shape key; a definition with no ast block, an empty one or one
\* with only name stays in place.  The rules made are walked in turn, the walk ends,
\* and afterwards no definition inside a rule satisfies (a), (b) and (c).
C23_HoistedExactlyAsStated ==
    ParserBuilt =>
        /\ Cardinality(DOMAIN RuleDefs \ DOMAIN UnifiedGrammar.rules)
               = ToHoistIn(UnifiedGrammar.rules, DOMAIN UnifiedGrammar.rules)
        /\ ToHoistIn(RuleDefs, DOMAIN RuleDefs) = 0
        /\ \A rule_name \in DOMAIN RuleDefs \ DOMAIN UnifiedGrammar.rules :
               /\ DOMAIN RuleDefs[rule_name] = {"ast", "sequence"}
               /\ Len(RuleDefs[rule_name].sequence) = 1
----------------------------------------------------------------------------
(* Claims about the children of a sequence rule *)

\* the visits that reach the default node creation of a sequence rule: no discard,
\* leaf, promote or structure before it
DefaultSequenceVisits ==
    {i \in RuleVisits :
        /\ "sequence" \in DOMAIN RuleDefs[last_visits[i].rule_name]
        /\ ~get(AstOf(last_visits[i].rule_name), "discard", FALSE)
        /\ ~VisitedAsLeaf(last_visits[i].rule_name)
        /\ ~get(AstOf(last_visits[i].rule_name), "promote", FALSE)
        /\ "structure" \notin DOMAIN AstOf(last_visits[i].rule_name)}

\* a part with `ast.discard`, or a reference to a rule with `discard`
DiscardedPart(part) ==
    \/ get(get(part, "ast", EmptyDict), "discard", FALSE)
    \/ /\ "rule" \in DOMAIN part
       /\ part.rule \in DOMAIN RuleDefs
       /\ get(AstOf(part.rule), "discard", FALSE)

\* the parts that are numbered 0, 1, 2, ...: here the part numbered i is at place i + 1
NumberedParts(rule_name) ==
    SelectSeq(RuleDefs[rule_name].sequence,
              LAMBDA part : /\ DOMAIN part \cap {"positive_lookahead", "negative_lookahead"} = {}
                            /\ ~DiscardedPart(part))

NamedAmong(parts) ==
    {j \in 1..Len(parts) : "ast" \in DOMAIN parts[j] /\ "name" \in DOMAIN parts[j].ast}

\* the nodes of a list of children, the lists among them opened at any depth, nulls
\* left out
RECURSIVE DeepFlattening(_)
DeepFlattening(items) ==
    IF Len(items) = 0 THEN <<>>
    ELSE (IF is_list(Head(items)) THEN DeepFlattening(Head(items).items)
          ELSE IF is_none(Head(items)) THEN <<>>
          ELSE <<Head(items)>>) \o DeepFlattening(Tail(items))

\* C24: in the default node creation of a sequence rule the parts that are neither
\* lookaheads nor discarded are numbered 0, 1, 2, ...; when one of them has ast.name,
\* each named part numbered i is bound under its name to the i-th of the visited
\* children that are not null, and to an empty list when there is no i-th; when none
\* has a name, children is the deep flattening of those children, with no list and no
\* null in it.
C24_ChildrenOfSequence ==
    ParserCalled =>
        \A i \in DefaultSequenceVisits :
            LET parts == NumberedParts(last_visits[i].rule_name)
                children == not_none(last_visits[i].visited_children)
                ret == last_visits[i].ret
            IN  /\ is_dict(ret)
                /\ "children" \in DOMAIN ret.d
                /\ IF NamedAmong(parts) # {}
                   THEN /\ is_dict(ret.d.children)
                        /\ DOMAIN ret.d.children.d = {parts[j].ast.name : j \in NamedAmong(parts)}
                        /\ \A j \in NamedAmong(parts) :
                               ret.d.children.d[parts[j].ast.name]
                                   = IF j <= Len(children) THEN children[j] ELSE List(<<>>)
                   ELSE /\ is_list(ret.d.children)
                        /\ ret.d.children.items = DeepFlattening(children)
                        /\ \A j \in 1..Len(ret.d.children.items) :
                               /\ ~is_list(ret.d.children.items[j])
                               /\ ~is_none(ret.d.children.items[j])

\* a sequence with a discarded part bound both of its names to a child, and a sequence
\* with no names flattened a list of two nodes
C24_NamedAndFlattened ==
    /\ ParseSucceeded
    /\ \E i \in DefaultSequenceVisits :
           LET parts == NumberedParts(last_visits[i].rule_name) IN
           /\ Len(parts) < Len(RuleDefs[last_visits[i].rule_name].sequence)
           /\ Cardinality(NamedAmong(parts)) = 2
           /\ \A j \in NamedAmong(parts) :
                  is_dict(last_visits[i].ret.d.children.d[parts[j].ast.name])
    /\ \E i \in DefaultSequenceVisits :
           /\ NamedAmong(NumberedParts(last_visits[i].rule_name)) = {}
           /\ \E j \in 1..Len(last_visits[i].visited_children) :
                  /\ is_list(last_visits[i].visited_children[j])
                  /\ Len(last_visits[i].visited_children[j].items) = 2
           /\ Len(last_visits[i].ret.d.children.items) = 2
----------------------------------------------------------------------------
(* Claims about the end of the scanning loop *)

\* C25: tokenize ends on every text for every lexer configuration: each iteration of
\* its scanning loop raises a lexical or indentation error or moves the position
\* forward, so the end of the text is reached after finitely many iterations, also
\* when the regex of a token spec matches the empty string.
C25_EveryIterationAdvances ==
    [][(lexer.state = "scanning" /\ lexer.pos < Len(lexer.text)) =>
          \/ lexer'.state = "raised" /\ lexer'.exc \in {"SyntaxError", "IndentationError"}
          \/ lexer'.state = "scanning" /\ lexer'.pos > lexer.pos]_vars
----------------------------------------------------------------------------
(* Claims about named parts that are hoisted *)

\* the places of the parts of a sequence rule of the grammar as given that carry a
\* name together with other directives
NamedAndHoisted(rule_name) ==
    IF "sequence" \notin DOMAIN UnifiedGrammar.rules[rule_name] THEN {}
    ELSE {j \in 1..Len(UnifiedGrammar.rules[rule_name].sequence) :
             /\ HoistedAsStated(UnifiedGrammar.rules[rule_name].sequence[j])
             /\ "name" \in DOMAIN UnifiedGrammar.rules[rule_name].sequence[j].ast}

\* C26: a named part survives normalization: when a part of a sequence with ast.name
\* and other directives is hoisted into a rule of its own, the node that takes its
\* place in the sequence still has that name, so the node of the sequence rule has an
\* entry of that name in its named children whenever the part matched.
C26_NameSurvivesHoisting ==
    ParserBuilt =>
        \A rule_name \in DOMAIN UnifiedGrammar.rules :
            \A j \in NamedAndHoisted(rule_name) :
                LET name == UnifiedGrammar.rules[rule_name].sequence[j].ast.name IN
                /\ get(get(RuleDefs[rule_name].sequence[j], "ast", EmptyDict), "name", "") = name
                /\ ParseSucceeded =>
                       \A i \in DefaultSequenceVisits :
                           last_visits[i].rule_name = rule_name =>
                               /\ is_dict(last_visits[i].ret.d.children)
                               /\ name \in DOMAIN last_visits[i].ret.d.children.d
----------------------------------------------------------------------------
(* Claims about the children of a mapped node *)

\* C27: in a node built by structure: {map_children}, two names mapped with different
\* from_child never hold the same visited child: each visited child is under one name
\* at most, whichever optional parts matched and whichever were omitted.
C27_OneNamePerChild ==
    ParserCalled =>
        \A i \in MapChildrenVisits :
            LET mapping == map_children_of(last_visits[i].rule_name)
                held == last_visits[i].ret.d.children.d
            IN  \A first \in DOMAIN held : \A second \in DOMAIN held :
                    mapping[first].from_child # mapping[second].from_child =>
                        held[first] # held[second]
----------------------------------------------------------------------------
(* Claims about token mode *)

\* the token-rule visits of the last parse call, in the order they were made
TokenVisits ==
    SelectSeq(last_visits,
              LAMBDA entry :
                  \E j \in 1..Len(token_types(parser_obj.config.grammar_dict)) :
                      token_types(parser_obj.config.grammar_dict)[j] = entry.rule_name)

\* the tokens the lexer made of the text of the last call
TokensOfCall == tokenize(parser_obj.config.grammar_dict.lexer, last_call.text).tokens

\* C28: in token mode, on every successful parse each token of the lexer is consumed
\* by one token-rule visit and in order: the k-th token rule visited takes the k-th
\* token, the name of the rule visited is that token's type (the tag of the node made
\* is the name of the rule), and token_idx is the number of tokens when the visit
\* ends; also for token names of which one is a prefix of another.
C28_OneVisitPerToken ==
    (ParseSucceeded /\ parser_obj.config.is_token_grammar) =>
        /\ Len(TokenVisits) = Len(TokensOfCall)
        /\ \A k \in 1..Len(TokenVisits) :
               /\ k <= Len(TokensOfCall)
               /\ TokenVisits[k].rule_name = TokensOfCall[k].type
               /\ is_dict(TokenVisits[k].ret) => TokenVisits[k].ret.d.tag = TokenVisits[k].rule_name
----------------------------------------------------------------------------
(* Claims about the dictionary of the caller *)

\* C29: constructing a Parser or a PlaceholderParser leaves the caller's grammar
\* dictionary unchanged: after the constructor returned or raised, the dictionary
\* has the same keys, rules and nested nodes as before the call.
C29_CallersGrammarUnchanged ==
    parser_obj.state # "none" => input_grammar = Scenarios[scenario].grammar_dict

\* a parser was built from a grammar that normalization hoists in, or whose
\* subgrammars were replaced, and that got _external_refs on the way
C29_BuiltFromRewrittenCopy ==
    /\ parser_obj.state = "built"
    /\ parser_obj.config.grammar_dict.rules # input_grammar.rules
    /\ \/ parser_obj.class = "PlaceholderParser"
       \/ "_external_refs" \in DOMAIN UnifiedGrammar
    /\ "_external_refs" \notin DOMAIN input_grammar
----------------------------------------------------------------------------
(* Claims about the node under a name *)

\* the places of a sequence whose part declares a name and is numbered
NamedPlaces(rule_name) ==
    {p \in NamedAmong(RuleDefs[rule_name].sequence) :
        /\ DOMAIN RuleDefs[rule_name].sequence[p]
               \cap {"positive_lookahead", "negative_lookahead"} = {}
        /\ ~DiscardedPart(RuleDefs[rule_name].sequence[p])}

\* C30: in a default-mode sequence rule with named children the node bound to a name
\* is the node produced by the part that declares the name, for every input: also
\* when an earlier unnamed part matched nothing, each later named part that matched
\* is under its own name with its own node.
C30_OwnNodeUnderName ==
    ParserCalled =>
        \A i \in DefaultSequenceVisits :
            LET sequence_def == RuleDefs[last_visits[i].rule_name].sequence
                visited_children == last_visits[i].visited_children
                ret == last_visits[i].ret
            IN  \A p \in NamedPlaces(last_visits[i].rule_name) :
                    (p <= Len(visited_children) /\ ~is_none(visited_children[p])) =>
                        /\ is_dict(ret)
                        /\ is_dict(ret.d.children)
                        /\ sequence_def[p].ast.name \in DOMAIN ret.d.children.d
                        /\ ret.d.children.d[sequence_def[p].ast.name] = visited_children[p]
====
